---- MODULE Spec2Model ----
(***************************************************************************)
(* The two-tier cache of leopictos-app.                                    *)
(*                                                                         *)
(*   Spec         the cache coordinator (services/apiService.ts) over the  *)
(*                structured client store (services/cacheService.ts, an    *)
(*                IndexedDB object store)                                  *)
(*   SpecIds      the coordinator called with any key as an id             *)
(*   SpecStore    the structured store used directly                       *)
(*   SpecSW       the request proxy (public/sw.js): the fetch handler and  *)
(*                its three caching strategies                             *)
(*   SpecTiers    the coordinator with the proxy between it and the network*)
(*   SpecInval    the proxy serving requests across cache invalidations    *)
(*   SpecLife     the proxy's install / activate lifecycle and messages    *)
(*                                                                         *)
(* Asynchrony: every await of the source is a suspension point.  A store   *)
(* call is two steps (the database open, then the request inside its       *)
(* transaction); a network call is two steps (the server handles the       *)
(* request, then the response reaches the caller).  IndexedDB runs open    *)
(* requests and overlapping transactions in the order they were made, so   *)
(* the pending store calls form one FIFO queue.                            *)
(***************************************************************************)
EXTENDS Integers, Sequences, FiniteSets, TLC

\* ---------------------------------------------------------------- bounds
MaxCalls == 3      \* direct store calls started in one behaviour (SpecStore)
MaxOps == 2        \* coordinator operations started in one behaviour (Spec)
MaxTicks == 1      \* advances of the wall clock
MaxFaults == 1     \* storage failures injected
MaxFetches == 3    \* fetch events handled by the proxy (SpecSW)
MaxFlips == 1      \* changes of the network between reachable and unreachable
MaxAcross == 2     \* fetch events handled across invalidations (SpecInval)
MaxInvalidations == 1   \* INVALIDATE_CACHE messages posted (SpecInval)
MaxMessages == 2   \* messages the application posts to the proxy (SpecLife)

\* ------------------------------------------------------- program constants
LIST_CACHE_KEY == "__list__"
CACHE_TTL == 5 * 60 * 1000

\* ------------------------------------------------------------ value sets
Tasks == {1, 2}                     \* logical operations in flight at once
Detached == 0                       \* caller of a call nobody awaits
Ids == {"p1"}
Keys == {LIST_CACHE_KEY} \cup Ids
TTLs == {1, CACHE_TTL}
ClockSteps == {1, CACHE_TTL + 1}

Null == [null |-> TRUE]             \* JavaScript null / undefined
Values == {[val |-> "a"], [val |-> "b"]}
UpdateSets == {[word |-> "W"], [id |-> "p9", word |-> "W"]}

\* { ...a, ...b }: object spread, later properties win
Merge(a, b) ==
  [f \in (DOMAIN a) \cup (DOMAIN b) |-> IF f \in DOMAIN b THEN b[f] ELSE a[f]]

\* JavaScript truthiness of a cached payload: only null is falsy here
Truthy(v) == v # Null

\* ----------------------------------------------------------- the state
VARIABLES
  now,        \* Date.now()
  ticks,      \* clock advances so far
  store,      \* the object store 'pictograms': key -> record or NoEntry
  idbQueue,   \* pending store calls, in the order they were made
  faults,     \* storage failures so far
  srvVer,     \* version of the server's collection; a mutation increments it
  task,       \* the logical operations: position, arguments, result
  started,    \* logical operations started so far
  obs,        \* history per task (never read by the program)
  quiet,      \* history per key: the put that completed last, if no time elapsed
              \*   and no other call touching the key was made since: its data,
              \*   whether it met a storage failure, whether its entry was still
              \*   unexpired when it completed; or (del) the delete that
              \*   completed last, if no other call touching the key was made
              \*   since, and what it found (prior: absent, live, expired)
  afterCreate,\* history: a create has completed and no list read followed:
              \*   state "clean" (its invalidation ran undisturbed), "sfail" (it
              \*   met a storage failure), "conc" (a write to the list key was
              \*   made after it), and whether the list key was populated
  swCache,    \* proxy: partition -> request -> stored response or NoResp
  swTask,     \* proxy: the strategy invocations
  swPuts,     \* proxy: cache.put calls in progress (nobody awaits them)
  online,     \* proxy: whether the network currently answers
  swFlips,    \* proxy: changes of online so far
  swStarted,  \* proxy: fetch events so far
  swObs,      \* proxy: history per invocation (never read by the program)
  swQuiet,    \* proxy: history per request: the response a fetch last
              \*        returned from the network, and whether it is stored
  swExists,   \* proxy: names of the partitions that exist (caches.keys())
  swLife,     \* proxy: this instance's lifecycle state, its skip-waiting flag
              \*        and how far its clients.claim() got
  controller, \* which instance controls the application: none, prior, this
  swOps,      \* proxy: caches.keys() and caches.delete() calls in progress
  swSent,     \* messages the application has posted so far
  swHist      \* proxy: history: partitions the activation sweep deleted, and
              \*        the message posted last

coordVars == <<now, ticks, store, idbQueue, faults, srvVer, task, started,
               obs, quiet, afterCreate>>
lifeVars == <<swLife, controller, swOps, swSent, swHist>>
swVars == <<swCache, swTask, swPuts, online, swFlips, swStarted, swObs, swQuiet,
            swExists, lifeVars>>
vars == <<coordVars, swVars>>

\* ------------------------------------------------------- structured store
NoEntry == [present |-> FALSE, data |-> Null, timestamp |-> 0, expiresAt |-> 0]

StaleCacheEntry(data, t1, t2, ttl) ==
  [present |-> TRUE, data |-> Null, timestamp |-> t1, expiresAt |-> t2 + ttl]

\* the entry saveToCache builds: { data, timestamp: Date.now(),
\* expiresAt: Date.now() + ttl }, with t1 and t2 the two readings of the clock
CacheEntry(data, t1, t2, ttl) ==
  [present |-> TRUE, data |-> data, timestamp |-> t1, expiresAt |-> t2 + ttl]

\* a store call: who awaits it, what it does, how far it got
Call(t, fn, key, data, ttl) ==
  [task |-> t, fn |-> fn, key |-> key, data |-> data, ttl |-> ttl,
   item |-> NoEntry, phase |-> "open"]

getFromCache(t, key) == Call(t, "get", key, Null, 0)
saveToCache(t, key, data, ttl) == Call(t, "put", key, data, ttl)
deleteAnotherKey(t, key) ==
  Call(t, "delete", IF key = LIST_CACHE_KEY THEN "p1" ELSE LIST_CACHE_KEY, Null, 0)
deleteFromCache(t, key) == Call(t, "delete", key, Null, 0)
clearCache(t) == Call(t, "clear", LIST_CACHE_KEY, Null, 0)

getCachedPictogramList(t) == getFromCache(t, LIST_CACHE_KEY)
cacheListNowhere(t, pictograms) == getFromCache(t, LIST_CACHE_KEY)
cachePictogramList(t, pictograms) == saveToCache(t, LIST_CACHE_KEY, pictograms, CACHE_TTL)
getCachedPictogram(t, id) == getFromCache(t, id)
cachePictogramAsList(t, pictogram) == saveToCache(t, LIST_CACHE_KEY, pictogram, CACHE_TTL)
cachePictogram(t, pictogram) == saveToCache(t, pictogram.id, pictogram, CACHE_TTL)
invalidateNothing(t) == getFromCache(t, LIST_CACHE_KEY)
cacheCreatedPictogram(t) == saveToCache(t, "p1", [id |-> "p1", ver |-> 0], CACHE_TTL)
invalidatePictogramListCache(t) == deleteFromCache(t, LIST_CACHE_KEY)

Touches(c, k) == c.fn = "clear" \/ c.key = k

\* ------------------------------------------------------------ the tasks
StoreOps == {"saveToCache", "getFromCache", "deleteFromCache", "clearCache"}
ReadOps == {"listPictograms", "getPictogram"}
WriteOps == {"createPictogram", "updatePictogram", "deletePictogram"}

IdleTask ==
  [op |-> "none", pc |-> "idle", key |-> LIST_CACHE_KEY, filtered |-> FALSE,
   arg |-> Null, resp |-> [ok |-> FALSE, body |-> Null],
   res |-> Null, outcome |-> "pending"]

NoPut ==
  [on |-> FALSE, data |-> Null, failed |-> FALSE, live |-> FALSE,
   del |-> FALSE, prior |-> "none"]
NoCreate == [state |-> "no", populated |-> FALSE]

IdleObs ==
  [sfail |-> FALSE,        \* a storage failure hit one of the task's store calls
   fetched |-> FALSE,      \* the task issued a network request
   netOk |-> FALSE,        \* the request got a success response
   netErr |-> FALSE,       \* the request failed at the transport level
   applied |-> 0,          \* server version the task's mutation produced
   expired |-> FALSE,      \* the task's get found an expired entry
   conc |-> FALSE,         \* a write to a key the task invalidates was made meanwhile
   pre |-> NoPut,          \* quiet[key] when the task's get was invoked
   undisturbed |-> FALSE,  \* ... and still so when the get returned
   afterDelete |-> FALSE,  \* the get was invoked after a delete of its key had
                           \*   completed, with no other call on the key between
   afterCreate |-> [state |-> "no", populated |-> FALSE]]
                           \* afterCreate when the task's list read was invoked

Free(t) == task[t].pc \in {"idle", "done"}

Finish(r, outcome, res) == [r EXCEPT !.pc = "done", !.outcome = outcome, !.res = res]

\* What a task does when the store call it awaits settles: ok = the call's
\* promise resolved (with v), ~ok = it rejected.  The result is the task's new
\* record and the store calls it makes before its next await.
Continue(t, ok, v) ==
  LET r == task[t] IN
  CASE r.op \in StoreOps ->
         [task |-> Finish(r, IF ok THEN "resolved" ELSE "rejected", v), calls |-> <<>>]
    [] r.op \in ReadOps /\ r.pc = "lookup" ->
         IF ~ok THEN [task |-> Finish(r, "rejected", Null), calls |-> <<>>]
         ELSE IF Truthy(v) THEN [task |-> Finish(r, "resolved", v), calls |-> <<>>]
         ELSE [task |-> [r EXCEPT !.pc = "fetch"], calls |-> <<>>]
    [] r.op \in ReadOps /\ r.pc = "write" ->
         [task |-> Finish(r, IF ok THEN "resolved" ELSE "rejected",
                          IF ok THEN r.resp.body ELSE Null),
          calls |-> <<>>]
    [] r.op \in WriteOps /\ r.pc = "inval1" ->
         IF ok THEN [task |-> [r EXCEPT !.pc = "inval2"],
                     calls |-> <<invalidatePictogramListCache(t)>>]
         ELSE [task |-> Finish(r, "rejected", Null), calls |-> <<>>]
    [] r.op \in WriteOps /\ r.pc = "inval2" ->
         [task |-> Finish(r, IF ok THEN "resolved" ELSE "rejected",
                          IF ok THEN r.res ELSE Null),
          calls |-> <<>>]
    [] OTHER -> [task |-> r, calls |-> <<>>]

invalidateListOnly(t, id) == deleteFromCache(t, LIST_CACHE_KEY)
invalidateListTwice(t, id) == invalidatePictogramListCache(t)
invalidatePictogramCache(t, id) == deleteFromCache(t, id)   \* the list key follows, in Continue

\* ------------------------------------------------- history of the store calls
PutsOn(cs, k) == \E i \in DOMAIN cs : cs[i].fn = "put" /\ cs[i].key = k
WritesOn(cs, k) == \E i \in DOMAIN cs : cs[i].fn # "get" /\ Touches(cs[i], k)

\* task record r is between the start and the end of its invalidation of key k
Invalidating(r, k) ==
  /\ r.op \in WriteOps
  /\ r.pc \in {"inval1", "inval2"}
  /\ k = LIST_CACHE_KEY \/ (r.op # "createPictogram" /\ k = r.key)

\* time passes: a completed put is no longer followed at once
QuietAfterTime(q) == [k \in Keys |-> IF q[k].del THEN q[k] ELSE NoPut]

QuietAfter(q, cs) == [k \in Keys |-> IF WritesOn(cs, k) THEN NoPut ELSE q[k]]

ObsAfter(o, cs, me) ==
  [u \in Tasks |->
     IF u # me /\ \E k \in Keys : PutsOn(cs, k) /\ Invalidating(task[u], k)
     THEN [o[u] EXCEPT !.conc = TRUE] ELSE o[u]]

AfterCreateAfter(a, cs) ==
  IF a.state # "no" /\ PutsOn(cs, LIST_CACHE_KEY) THEN [a EXCEPT !.state = "conc"] ELSE a

\* Task t moves to record nt and makes the store calls cs.
Proceed(t, nt, no, cs, ac) ==
  /\ task' = [task EXCEPT ![t] = nt]
  /\ idbQueue' = idbQueue \o cs
  /\ obs' = ObsAfter([obs EXCEPT ![t] = [no EXCEPT !.fetched = @ \/ nt.pc = "fetch"]], cs, t)
  /\ quiet' = QuietAfter(quiet, cs)
  /\ afterCreate' = AfterCreateAfter(ac, cs)

\* Task slots are interchangeable: a new operation takes the lowest free one.
Start(t, max) ==
  /\ Free(t)
  /\ \A u \in Tasks : u < t => ~Free(u)
  /\ started < max
  /\ started' = started + 1

NewTask(op, pc, key, filtered, arg) ==
  [IdleTask EXCEPT !.op = op, !.pc = pc, !.key = key, !.filtered = filtered, !.arg = arg]

\* --------------------------------------- direct uses of the structured store
CallSaveToCache(t, key, data, ttl) ==
  /\ Start(t, MaxCalls)
  /\ Proceed(t, NewTask("saveToCache", "store", key, FALSE, data), IdleObs,
             <<saveToCache(t, key, data, ttl)>>, afterCreate)
  /\ UNCHANGED <<now, ticks, store, faults, srvVer>>
  /\ UNCHANGED swVars

CallGetFromCache(t, key) ==
  /\ Start(t, MaxCalls)
  /\ Proceed(t, NewTask("getFromCache", "store", key, FALSE, Null),
             [IdleObs EXCEPT !.pre = quiet[key]],
             <<getFromCache(t, key)>>, afterCreate)
  /\ UNCHANGED <<now, ticks, store, faults, srvVer>>
  /\ UNCHANGED swVars

CallDeleteFromCache(t, key) ==
  /\ Start(t, MaxCalls)
  /\ Proceed(t, NewTask("deleteFromCache", "store", key, FALSE, Null), IdleObs,
             <<deleteFromCache(t, key)>>, afterCreate)
  /\ UNCHANGED <<now, ticks, store, faults, srvVer>>
  /\ UNCHANGED swVars

CallClearCache(t) ==
  /\ Start(t, MaxCalls)
  /\ Proceed(t, NewTask("clearCache", "store", LIST_CACHE_KEY, FALSE, Null), IdleObs,
             <<clearCache(t)>>, afterCreate)
  /\ UNCHANGED <<now, ticks, store, faults, srvVer>>
  /\ UNCHANGED swVars

\* ------------------------------------------- the coordinator, up to its first await
listIgnoringFilter(t, userId) ==
  /\ Start(t, MaxOps)
  /\ Proceed(t, NewTask("listPictograms", "lookup", LIST_CACHE_KEY, userId, Null),
             [IdleObs EXCEPT !.afterCreate = afterCreate],
             <<getCachedPictogramList(t)>>, NoCreate)
  /\ UNCHANGED <<now, ticks, store, faults, srvVer>>
  /\ UNCHANGED swVars

listPictograms(t, userId) ==
  /\ Start(t, MaxOps)
  /\ IF ~userId
     THEN Proceed(t, NewTask("listPictograms", "lookup", LIST_CACHE_KEY, FALSE, Null),
                  [IdleObs EXCEPT !.afterCreate = afterCreate,
                                  !.pre = quiet[LIST_CACHE_KEY]],
                  <<getCachedPictogramList(t)>>, NoCreate)
     ELSE Proceed(t, NewTask("listPictograms", "fetch", LIST_CACHE_KEY, TRUE, Null),
                  IdleObs, <<>>, afterCreate)
  /\ UNCHANGED <<now, ticks, store, faults, srvVer>>
  /\ UNCHANGED swVars

getPictogram(t, id) ==
  /\ Start(t, MaxOps)
  /\ Proceed(t, NewTask("getPictogram", "lookup", id, FALSE, Null),
             [IdleObs EXCEPT !.pre = quiet[id]],
             <<getCachedPictogram(t, id)>>, afterCreate)
  /\ UNCHANGED <<now, ticks, store, faults, srvVer>>
  /\ UNCHANGED swVars

createPictogram(t) ==
  /\ Start(t, MaxOps)
  /\ Proceed(t, NewTask("createPictogram", "fetch", LIST_CACHE_KEY, FALSE, Null),
             IdleObs, <<>>, afterCreate)
  /\ UNCHANGED <<now, ticks, store, faults, srvVer>>
  /\ UNCHANGED swVars

updatePictogram(t, id, updates) ==
  /\ Start(t, MaxOps)
  /\ Proceed(t, NewTask("updatePictogram", "fetch", id, FALSE, updates),
             IdleObs, <<>>, afterCreate)
  /\ UNCHANGED <<now, ticks, store, faults, srvVer>>
  /\ UNCHANGED swVars

deletePictogram(t, id) ==
  /\ Start(t, MaxOps)
  /\ Proceed(t, NewTask("deletePictogram", "fetch", id, FALSE, Null),
             IdleObs, <<>>, afterCreate)
  /\ UNCHANGED <<now, ticks, store, faults, srvVer>>
  /\ UNCHANGED swVars

\* ------------------------------------------------------------ the network
\* The server handles the request of task t: with ok it answers 2xx (and a
\* mutation is applied), otherwise with a non-success status.
ServerResponse(r, ok, ver) ==
  [ok |-> ok,
   body |-> CASE ~ok -> Null
              [] r.op = "listPictograms" -> [list |-> TRUE, ver |-> ver]
              [] r.op = "deletePictogram" -> Null
              [] OTHER -> [id |-> IF r.op = "createPictogram" THEN "p1" ELSE r.key,
                           ver |-> ver]]

ServerHandle(t) ==
  /\ task[t].pc = "fetch"
  /\ \E ok \in BOOLEAN :
       LET r == task[t]
           ver == IF ok /\ r.op \in WriteOps THEN srvVer + 1 ELSE srvVer
       IN /\ srvVer' = ver
          /\ task' = [task EXCEPT ![t] = [r EXCEPT !.pc = "respond",
                                                   !.resp = ServerResponse(r, ok, ver)]]
          /\ obs' = [obs EXCEPT ![t].applied = IF ok /\ r.op \in WriteOps THEN ver ELSE 0]
  /\ UNCHANGED <<now, ticks, store, idbQueue, faults, started, quiet, afterCreate>>
  /\ UNCHANGED swVars

\* fetch() rejects: nothing in apiService.ts catches it
NetFail(t) ==
  /\ task[t].pc \in {"fetch", "respond"}
  /\ task' = [task EXCEPT ![t] = Finish(task[t], "rejected", Null)]
  /\ obs' = [obs EXCEPT ![t].netErr = TRUE]
  /\ UNCHANGED <<now, ticks, store, idbQueue, faults, srvVer, started, quiet, afterCreate>>
  /\ UNCHANGED swVars

InvalidateAndSwallow(t, r, o) ==
  IF r.op \in {"createPictogram", "deletePictogram"}
  THEN Proceed(t, [r EXCEPT !.pc = "inval2", !.res = Null], o,
               <<invalidatePictogramListCache(t)>>, afterCreate)
  ELSE Proceed(t, Finish(r, "rejected", Null), o, <<>>, afterCreate)

CacheErrorBody(t, r, o) ==
  IF r.op \in ReadOps /\ ~r.filtered
  THEN Proceed(t, [r EXCEPT !.pc = "write"], o,
               <<saveToCache(t, r.key, r.resp.body, CACHE_TTL)>>, afterCreate)
  ELSE Proceed(t, Finish(r, "rejected", Null), o, <<>>, afterCreate)

\* `if (!response.ok) throw new Error(...)` in create, list, get and delete
ThrowOnNonSuccess(t, r, o) == Proceed(t, Finish(r, "rejected", Null), o, <<>>, afterCreate)

\* The response reaches task t, which runs on to its next await.
Deliver(t) ==
  /\ task[t].pc = "respond"
  /\ LET r == task[t]
         body == r.resp.body
         o == [obs[t] EXCEPT !.netOk = r.resp.ok]
     IN CASE r.op = "updatePictogram" ->
               Proceed(t, [r EXCEPT !.pc = "inval1",
                                    !.res = IF r.resp.ok THEN body
                                            ELSE Merge([id |-> r.key], r.arg)],
                       o, <<invalidatePictogramCache(t, r.key)>>, afterCreate)
          [] ~r.resp.ok -> ThrowOnNonSuccess(t, r, o)
          [] r.op = "listPictograms" ->
               IF r.filtered
               THEN Proceed(t, Finish(r, "resolved", body), o, <<>>, afterCreate)
               ELSE Proceed(t, [r EXCEPT !.pc = "write"], o,
                            <<cachePictogramList(t, body)>>, afterCreate)
          [] r.op = "getPictogram" ->
               Proceed(t, [r EXCEPT !.pc = "write"], o,
                       <<cachePictogram(t, body)>>, afterCreate)
          [] r.op = "createPictogram" ->
               Proceed(t, [r EXCEPT !.pc = "inval2", !.res = body], o,
                       <<invalidatePictogramListCache(t)>>, afterCreate)
          [] r.op = "deletePictogram" ->
               Proceed(t, [r EXCEPT !.pc = "inval1", !.res = Null], o,
                       <<invalidatePictogramCache(t, r.key)>>, afterCreate)
  /\ UNCHANGED <<now, ticks, store, faults, srvVer, started>>
  /\ UNCHANGED swVars

\* ---------------------------------------------------------------- the clock
Tick ==
  /\ ticks < MaxTicks
  /\ \E d \in ClockSteps : now' = now + d
  /\ ticks' = ticks + 1
  /\ quiet' = QuietAfterTime(quiet)
  /\ UNCHANGED <<store, idbQueue, faults, srvVer, task, started, obs, afterCreate>>
  /\ UNCHANGED swVars

\* ------------------------------------------------- IndexedDB: the pending calls
\* Call c (already taken out of the queue, which is left as rest) settles:
\* its promise resolves with v (ok) or rejects (~ok), after making the calls
\* extra; the task awaiting it runs on to its next await.  failed tells that
\* a storage failure was met, expired that a get found an expired entry.
EntryState(entry) ==
  IF ~entry.present THEN "absent" ELSE IF now > entry.expiresAt THEN "expired" ELSE "live"

Settle(c, rest, ok, v, extra, failed, expired) ==
  LET t == c.task
      cont == IF t = Detached THEN [task |-> IdleTask, calls |-> <<>>]
              ELSE Continue(t, ok, v)
      cs == extra \o cont.calls
      o1 == IF t = Detached THEN obs
            ELSE [obs EXCEPT ![t] =
                    [@ EXCEPT !.sfail = @ \/ failed,
                              !.expired = @ \/ expired,
                              !.fetched = @ \/ cont.task.pc = "fetch",
                              !.undisturbed = /\ c.fn = "get"
                                              /\ obs[t].pre.on
                                              /\ quiet[c.key] = obs[t].pre,
                              !.afterDelete = /\ c.fn = "get"
                                              /\ obs[t].pre.del
                                              /\ quiet[c.key] = obs[t].pre]]
      alone == ok /\ t # Detached /\ ~\E i \in DOMAIN rest : Touches(rest[i], c.key)
      q1 == CASE c.fn = "put" ->
                   IF alone
                   THEN [quiet EXCEPT ![c.key] =
                           [NoPut EXCEPT !.on = TRUE, !.data = c.data, !.failed = failed,
                                         !.live = ~failed /\ now <= c.item.expiresAt]]
                   ELSE [quiet EXCEPT ![c.key] = NoPut]
              [] c.fn = "delete" ->
                   IF alone
                   THEN [quiet EXCEPT ![c.key] =
                           [NoPut EXCEPT !.del = TRUE, !.failed = failed,
                                         !.prior = EntryState(store[c.key])]]
                   ELSE [quiet EXCEPT ![c.key] = NoPut]
              [] OTHER -> quiet
      ac == IF t # Detached /\ task[t].op = "createPictogram"
               /\ cont.task.pc = "done" /\ cont.task.outcome = "resolved"
            THEN [state |-> IF o1[t].sfail THEN "sfail"
                            ELSE IF o1[t].conc THEN "conc" ELSE "clean",
                  populated |-> store[LIST_CACHE_KEY].present]
            ELSE afterCreate
  IN /\ task' = IF t = Detached THEN task ELSE [task EXCEPT ![t] = cont.task]
     /\ idbQueue' = rest \o cs
     /\ obs' = ObsAfter(o1, cs, t)
     /\ quiet' = QuietAfter(q1, cs)
     /\ afterCreate' = AfterCreateAfter(ac, cs)

Without(q, i) == SubSeq(q, 1, i - 1) \o SubSeq(q, i + 1, Len(q))

\* the oldest call still waiting for initDB()
FirstOpening ==
  CHOOSE i \in DOMAIN idbQueue :
    /\ idbQueue[i].phase = "open"
    /\ \A j \in 1..(i - 1) : idbQueue[j].phase # "open"

\* `await initDB()` and `db.transaction(...)` succeed; the call builds its
\* request.  saveToCache reads Date.now() twice: the clock may advance between.
OpenSucceeds(i) ==
  LET c == idbQueue[i] IN
  /\ \E d \in {0, 1} :
       /\ d = 1 => (c.fn = "put" /\ ticks < MaxTicks)
       /\ now' = now + d
       /\ ticks' = ticks + d
       /\ quiet' = IF d = 1 THEN QuietAfterTime(quiet) ELSE quiet
       /\ idbQueue' = [idbQueue EXCEPT ![i] =
            [c EXCEPT !.phase = "req",
                      !.item = IF c.fn = "put"
                               THEN CacheEntry(c.data, now, now + d, c.ttl)
                               ELSE NoEntry]]
  /\ UNCHANGED <<store, faults, srvVer, task, started, obs, afterCreate>>

\* initDB() rejects or db.transaction() throws: the catch block logs it and
\* the call resolves (getFromCache with null) without touching the store.
OpenFails(i) ==
  /\ faults < MaxFaults
  /\ faults' = faults + 1
  /\ Settle(idbQueue[i], Without(idbQueue, i), TRUE, Null, <<>>, TRUE, FALSE)
  /\ UNCHANGED <<now, ticks, store, srvVer, started>>

IdbOpen ==
  /\ \E i \in DOMAIN idbQueue : idbQueue[i].phase = "open"
  /\ OpenSucceeds(FirstOpening) \/ OpenFails(FirstOpening)
  /\ UNCHANGED swVars

ExpiredFromBoundary(entry) == now >= entry.expiresAt

\* `if (Date.now() > entry.expiresAt)`
IsExpired(entry) == now > entry.expiresAt

ExpiryClearsStore(key) == <<clearCache(Detached)>>

\* getFromCache on an expired entry: deleteFromCache(key), not awaited
ExpiryCalls(key) == <<deleteFromCache(Detached, key)>>

\* history: the calls a get starts on finding an expired entry carry, in their
\* unused data field, the key and the entry found, and the data of the puts on
\* the key that had begun and were still pending when the get returned
StartedFor(cs, key, entry, pending) ==
  [i \in DOMAIN cs |->
     [cs[i] EXCEPT !.data =
        [key |-> key, found |-> entry,
         begun |-> {pending[j].data : j \in {j \in DOMAIN pending :
                      pending[j].fn = "put" /\ pending[j].key = key}}]]]

StoreAdd(st, cacheItem, key) ==
  IF st[key].present
  THEN [st EXCEPT ![key] = [cacheItem EXCEPT !.timestamp = st[key].timestamp]]
  ELSE [st EXCEPT ![key] = cacheItem]

\* store.put(cacheItem): the record under the key path value is replaced whole
StorePut(st, cacheItem, key) == [st EXCEPT ![key] = cacheItem]

\* request.onsuccess of the call at the head of the queue
RequestSucceeds ==
  LET c == Head(idbQueue)
      rest == Tail(idbQueue)
      entry == store[c.key]
  IN /\ CASE c.fn = "get" ->
               /\ UNCHANGED store
               /\ IF ~entry.present
                  THEN Settle(c, rest, TRUE, Null, <<>>, FALSE, FALSE)
                  ELSE IF IsExpired(entry)
                  THEN Settle(c, rest, TRUE, Null,
                              StartedFor(ExpiryCalls(c.key), c.key, entry, rest),
                              FALSE, TRUE)
                  ELSE Settle(c, rest, TRUE, entry.data, <<>>, FALSE, FALSE)
            [] c.fn = "put" ->
               /\ store' = StorePut(store, c.item, c.key)
               /\ Settle(c, rest, TRUE, Null, <<>>, FALSE, FALSE)
            [] c.fn = "delete" ->
               /\ store' = [store EXCEPT ![c.key] = NoEntry]
               /\ Settle(c, rest, TRUE, Null, <<>>, FALSE, FALSE)
            [] c.fn = "clear" ->
               /\ store' = [k \in Keys |-> NoEntry]
               /\ Settle(c, rest, TRUE, Null, <<>>, FALSE, FALSE)
     /\ UNCHANGED <<now, ticks, faults, srvVer, started>>

\* request.onerror: the promise handed back by `return new Promise(...)` is
\* not awaited inside the try block, so its rejection passes the catch block
\* and reaches the caller.
RequestFails ==
  /\ faults < MaxFaults
  /\ faults' = faults + 1
  /\ Settle(Head(idbQueue), Tail(idbQueue), FALSE, Null, <<>>, TRUE, FALSE)
  /\ UNCHANGED <<now, ticks, store, srvVer, started>>

IdbRequest ==
  /\ idbQueue # <<>>
  /\ Head(idbQueue).phase = "req"
  /\ RequestSucceeds \/ RequestFails
  /\ UNCHANGED swVars

\* ------------------------------------------------------------ specification
\* The store outlives a session: it may start empty, or hold what a list
\* read and an entity read of an earlier session wrote at time 0.
PopulatedStore ==
  [k \in Keys |->
     CacheEntry(IF k = LIST_CACHE_KEY THEN [list |-> TRUE, ver |-> 0]
                ELSE [id |-> k, ver |-> 0], 0, 0, CACHE_TTL)]

EmptyStore == [k \in Keys |-> NoEntry]

InitCoord ==
  /\ now = 0
  /\ ticks = 0
  /\ idbQueue = <<>>
  /\ faults = 0
  /\ srvVer = 0
  /\ task = [t \in Tasks |-> IdleTask]
  /\ started = 0
  /\ obs = [t \in Tasks |-> IdleObs]
  /\ quiet = [k \in Keys |-> NoPut]
  /\ afterCreate = NoCreate

\* ============================================================ the proxy
CACHE_VERSION == "v1"
CACHE_NAMES ==
  [images |-> "leopictos-images-v1", api |-> "leopictos-api-v1",
   static |-> "leopictos-static-v1"]
CacheNames == {CACHE_NAMES.images, CACHE_NAMES.api, CACHE_NAMES.static}
\* a partition left by a deployment with an earlier CACHE_VERSION
StaleNames == {"leopictos-static-v0"}
PartitionNames == CacheNames \cup StaleNames

\* A URL is its host (a sequence of labels) and its path (a sequence of segments).
ApiHost == <<"rmxx2fv016", "execute-api", "us-east-1", "amazonaws", "com">>
API_ENDPOINT == [host |-> ApiHost, path |-> <<"dev">>]

IsPrefix(p, q) == Len(p) <= Len(q) /\ SubSeq(q, 1, Len(p)) = p

\* /\.s3\.amazonaws\.com/ matches anywhere in the host name: the labels s3,
\* amazonaws, com in a row, with a label (hence a dot) before them
S3_PATTERN(host) ==
  \E i \in 2..(Len(host) - 2) :
    host[i] = "s3" /\ host[i + 1] = "amazonaws" /\ host[i + 2] = "com"

\* url.origin === API_ENDPOINT || url.href.startsWith(API_ENDPOINT): an origin
\* has no path, so only the prefix test can hold
Origin(url) == [host |-> url.host, path |-> <<>>]
StartsWith(url, prefix) == url.host = prefix.host /\ IsPrefix(prefix.path, url.path)
MatchesApi(url) == Origin(url) = API_ENDPOINT \/ StartsWith(url, API_ENDPOINT)

ImageUrl == [host |-> <<"bucket", "s3", "amazonaws", "com">>, path |-> <<"a.png">>]
ApiUrl == [host |-> ApiHost, path |-> <<"dev", "pictograms">>]
PageUrl == [host |-> <<"leopictos", "app">>, path |-> <<"index.html">>]
\* same origin as the API endpoint, another stage
StageUrl == [host |-> ApiHost, path |-> <<"prod", "pictograms">>]

Request(method, url) == [method |-> method, url |-> url]
\* `${API_ENDPOINT}/upload-url`
UploadUrl == [host |-> ApiHost, path |-> <<"dev", "upload-url">>]

\* what the pages and the coordinator's entity operations fetch
PageRequests ==
  {Request("GET", ImageUrl), Request("GET", ApiUrl), Request("POST", ApiUrl),
   Request("GET", PageUrl), Request("GET", StageUrl)}
\* the request identities a partition can hold a record for
Requests == PageRequests \cup {Request("POST", UploadUrl), Request("GET", UploadUrl)}

NoResp == [none |-> TRUE]                   \* undefined: no response
Response(ok, n) == [ok |-> ok, body |-> n]  \* n: the fetch event that got it

SwTasks == {1, 2}                           \* invocations in flight at once

IdleSw ==
  [strategy |-> "none", pc |-> "idle", req |-> Request("GET", PageUrl),
   cacheName |-> CACHE_NAMES.static, seq |-> 0, cached |-> NoResp,
   answered |-> FALSE, res |-> NoResp, outcome |-> "pending",
   detached |-> FALSE]     \* the Cache object it opened has since been deleted

IdleSwObs ==
  [fetched |-> FALSE,      \* the invocation called fetch()
   netResp |-> FALSE,      \* ... and fetch() gave it a response
   across |-> FALSE,       \* ... and an INVALIDATE_CACHE deletion of its
                           \* partition completed before it had stored it
   pre |-> [on |-> FALSE, resp |-> NoResp, stored |-> FALSE, bg |-> FALSE]]
                           \* swQuiet[req] when the fetch event arrived

NoQuiet == [on |-> FALSE, resp |-> NoResp, stored |-> FALSE, bg |-> FALSE]

SwFree(t) == swTask[t].pc \in {"idle", "done"}

\* the invocation answers its caller
Respond(r, outcome, res) ==
  [r EXCEPT !.answered = TRUE, !.outcome = outcome, !.res = res]

\* the fetch event listener: first matching rule wins, the last is unconditional
Classify(req) ==
  IF S3_PATTERN(req.url.host)
  THEN [strategy |-> "cacheFirst", cacheName |-> CACHE_NAMES.images, pc |-> "cf_lookup"]
  ELSE IF MatchesApi(req.url)
  THEN [strategy |-> "networkFirst", cacheName |-> CACHE_NAMES.api, pc |-> "nf_fetch"]
  ELSE [strategy |-> "staleWhileRevalidate", cacheName |-> CACHE_NAMES.static,
        pc |-> "swr_lookup"]

FetchEvent(t, req) ==
  /\ controller = "this"
  /\ swLife.state = "activated"
  /\ SwFree(t)
  /\ \A u \in SwTasks : u < t => ~SwFree(u)
  /\ swStarted < MaxFetches
  /\ swStarted' = swStarted + 1
  /\ LET c == Classify(req) IN
     /\ swTask' = [swTask EXCEPT ![t] =
          [IdleSw EXCEPT !.strategy = c.strategy, !.pc = c.pc, !.req = req,
                         !.cacheName = c.cacheName, !.seq = swStarted + 1]]
     /\ swObs' = [swObs EXCEPT ![t] =
          [IdleSwObs EXCEPT !.pre = swQuiet[req], !.fetched = c.pc = "nf_fetch"]]
  /\ UNCHANGED <<swCache, swPuts, online, swFlips, swQuiet>>
  /\ UNCHANGED <<swExists, lifeVars>>
  /\ UNCHANGED coordVars

getUploadUrlByGet(t) == FetchEvent(t, Request("GET", UploadUrl))

\* apiService getUploadUrl: fetch(`${API_ENDPOINT}/upload-url`, {method: 'POST'}),
\* which reaches the proxy as a fetch event; the response is returned (or an
\* error thrown) without any call to the structured store
getUploadUrl(t) == FetchEvent(t, Request("POST", UploadUrl))

\* cache.put(request, networkResponse.clone()), not awaited
CachePutElsewhere(r, resp) == [cacheName |-> CACHE_NAMES.images, req |-> r.req, resp |-> resp]
CachePut(r, resp) == [cacheName |-> r.cacheName, req |-> r.req, resp |-> resp]

Done(r) == [r EXCEPT !.pc = "done"]

\* history: an invocation hands resp, fresh from the network, to cache.put
\* (bg: after its caller had been answered); stored tells whether the put of
\* resp is the change of the request's record that completed last
QuietPut(r, resp) ==
  [swQuiet EXCEPT ![r.req] =
     [on |-> TRUE, resp |-> resp, stored |-> FALSE, bg |-> r.answered]]

CacheFirstAlwaysMisses(t) ==
  /\ swTask[t].pc = "cf_lookup"
  /\ swTask' = [swTask EXCEPT ![t].pc = "cf_fetch"]
  /\ swObs' = [swObs EXCEPT ![t].fetched = TRUE]
  /\ UNCHANGED <<swCache, swPuts, online, swFlips, swStarted, swQuiet>>
  /\ swExists' = swExists \cup {swTask[t].cacheName}   \* caches.open creates it
  /\ UNCHANGED lifeVars
  /\ UNCHANGED coordVars

\* cacheFirstStrategy: `await caches.open(cacheName)`, `await cache.match(request)`
CacheFirstLookup(t) ==
  /\ swTask[t].pc = "cf_lookup"
  /\ LET r == swTask[t]
         cachedResponse == swCache[r.cacheName][r.req]
     IN /\ swTask' = [swTask EXCEPT ![t] =
             IF cachedResponse # NoResp
             THEN Done(Respond([r EXCEPT !.cached = cachedResponse], "resolved", cachedResponse))
             ELSE [r EXCEPT !.pc = "cf_fetch"]]
        /\ swObs' = [swObs EXCEPT ![t].fetched = cachedResponse = NoResp]
  /\ UNCHANGED <<swCache, swPuts, online, swFlips, swStarted, swQuiet>>
  /\ swExists' = swExists \cup {swTask[t].cacheName}   \* caches.open creates it
  /\ UNCHANGED lifeVars
  /\ UNCHANGED coordVars

\* networkFirstStrategy after a success response to a GET:
\* `await caches.open(cacheName)`, then the put and the return
NetworkFirstStore(t) ==
  /\ swTask[t].pc = "nf_open"
  /\ LET r == swTask[t] IN
     /\ swPuts' = swPuts \cup {CachePut(r, r.res)}
     /\ swQuiet' = QuietPut(r, r.res)
     /\ swTask' = [swTask EXCEPT ![t] = Done(Respond(r, "resolved", r.res))]
  /\ UNCHANGED <<swCache, online, swFlips, swStarted, swObs>>
  /\ swExists' = swExists \cup {swTask[t].cacheName}   \* caches.open creates it
  /\ UNCHANGED lifeVars
  /\ UNCHANGED coordVars

\* networkFirstStrategy, catch block: the cache is asked, a miss rethrows
NetworkFirstFallback(t) ==
  /\ swTask[t].pc = "nf_fallback"
  /\ LET r == swTask[t]
         cachedResponse == swCache[r.cacheName][r.req]
     IN swTask' = [swTask EXCEPT ![t] =
          IF cachedResponse # NoResp
          THEN Done(Respond([r EXCEPT !.cached = cachedResponse], "resolved", cachedResponse))
          ELSE Done(Respond(r, "rejected", NoResp))]
  /\ UNCHANGED <<swCache, swPuts, online, swFlips, swStarted, swObs, swQuiet>>
  /\ swExists' = swExists \cup {swTask[t].cacheName}   \* caches.open creates it
  /\ UNCHANGED lifeVars
  /\ UNCHANGED coordVars

StaleWhileRevalidateWaits(t) ==
  /\ swTask[t].pc = "swr_lookup"
  /\ swTask' = [swTask EXCEPT ![t] =
       [@ EXCEPT !.cached = swCache[swTask[t].cacheName][swTask[t].req],
                 !.pc = "swr_fetch"]]
  /\ swObs' = [swObs EXCEPT ![t].fetched = TRUE]
  /\ UNCHANGED <<swCache, swPuts, online, swFlips, swStarted, swQuiet>>
  /\ swExists' = swExists \cup {swTask[t].cacheName}
  /\ UNCHANGED lifeVars
  /\ UNCHANGED coordVars

\* staleWhileRevalidateStrategy up to its return: open, match, start the
\* fetch; a cached response is returned at once, otherwise the fetch promise
StaleWhileRevalidateLookup(t) ==
  /\ swTask[t].pc = "swr_lookup"
  /\ LET r == swTask[t]
         cachedResponse == swCache[r.cacheName][r.req]
         r1 == [r EXCEPT !.cached = cachedResponse, !.pc = "swr_fetch"]
     IN swTask' = [swTask EXCEPT ![t] =
          IF cachedResponse # NoResp THEN Respond(r1, "resolved", cachedResponse) ELSE r1]
  /\ swObs' = [swObs EXCEPT ![t].fetched = TRUE]
  /\ UNCHANGED <<swCache, swPuts, online, swFlips, swStarted, swQuiet>>
  /\ swExists' = swExists \cup {swTask[t].cacheName}   \* caches.open creates it
  /\ UNCHANGED lifeVars
  /\ UNCHANGED coordVars

AnyMethodCacheable(request, networkResponse) == networkResponse.ok
AnyStatusCacheable(request, networkResponse) == request.method = "GET"

\* networkFirstStrategy: networkResponse.ok && request.method === 'GET'
IsCacheable(request, networkResponse) == networkResponse.ok /\ request.method = "GET"

\* fetch(request) resolves with a response, ok or not
FetchResponds(t) ==
  /\ swTask[t].pc \in {"cf_fetch", "nf_fetch", "swr_fetch"}
  /\ online
  /\ \E ok \in BOOLEAN :
       LET r == swTask[t]
           networkResponse == Response(ok, r.seq)
       IN CASE r.strategy = "cacheFirst" ->
                 /\ swPuts' = IF ok /\ ~r.detached
                              THEN swPuts \cup {CachePut(r, networkResponse)} ELSE swPuts
                 /\ swQuiet' = IF ok /\ ~r.detached
                               THEN QuietPut(r, networkResponse) ELSE swQuiet
                 /\ swTask' = [swTask EXCEPT ![t] = Done(Respond(r, "resolved", networkResponse))]
            [] r.strategy = "networkFirst" ->
                 /\ UNCHANGED <<swPuts, swQuiet>>
                 /\ swTask' = [swTask EXCEPT ![t] =
                      IF IsCacheable(r.req, networkResponse)
                      THEN [r EXCEPT !.pc = "nf_open", !.res = networkResponse]
                      ELSE Done(Respond(r, "resolved", networkResponse))]
            [] r.strategy = "staleWhileRevalidate" ->
                 /\ swPuts' = IF ok /\ ~r.detached
                              THEN swPuts \cup {CachePut(r, networkResponse)} ELSE swPuts
                 /\ swQuiet' = IF ok /\ ~r.detached
                               THEN QuietPut(r, networkResponse) ELSE swQuiet
                 /\ swTask' = [swTask EXCEPT ![t] =
                      IF r.answered THEN Done(r)
                      ELSE Done(Respond(r, "resolved", networkResponse))]
  /\ swObs' = [swObs EXCEPT ![t].netResp = TRUE]
  /\ UNCHANGED <<swCache, online, swFlips, swStarted>>
  /\ UNCHANGED <<swExists, lifeVars>>
  /\ UNCHANGED coordVars

\* fetch(request) rejects
FetchRejects(t) ==
  /\ swTask[t].pc \in {"cf_fetch", "nf_fetch", "swr_fetch"}
  /\ ~online
  /\ LET r == swTask[t] IN
     swTask' = [swTask EXCEPT ![t] =
       CASE r.strategy = "cacheFirst" -> Done(Respond(r, "rejected", NoResp))
         [] r.strategy = "networkFirst" -> [r EXCEPT !.pc = "nf_fallback"]
         [] r.strategy = "staleWhileRevalidate" ->
              \* .catch(() => cachedResponse)
              IF r.answered THEN Done(r) ELSE Done(Respond(r, "resolved", r.cached))]
  /\ UNCHANGED <<swCache, swPuts, online, swFlips, swStarted, swObs, swQuiet>>
  /\ UNCHANGED <<swExists, lifeVars>>
  /\ UNCHANGED coordVars

\* a cache.put in progress writes its record
CachePutCompletes(p) ==
  /\ p \in swPuts
  /\ swPuts' = swPuts \ {p}
  /\ swCache' = [swCache EXCEPT ![p.cacheName][p.req] = p.resp]
  /\ swQuiet' = [q \in Requests |->
       IF q = p.req /\ swQuiet[q].on
       THEN [swQuiet[q] EXCEPT !.stored = (swQuiet[q].resp = p.resp)]
       ELSE swQuiet[q]]
  /\ UNCHANGED <<swTask, online, swFlips, swStarted, swObs>>
  /\ UNCHANGED <<swExists, lifeVars>>
  /\ UNCHANGED coordVars

\* a cache.put in progress rejects (quota); nobody handles the rejection
CachePutFails(p) ==
  /\ p \in swPuts
  /\ swPuts' = swPuts \ {p}
  /\ UNCHANGED <<swCache, swTask, online, swFlips, swStarted, swObs, swQuiet>>
  /\ UNCHANGED <<swExists, lifeVars>>
  /\ UNCHANGED coordVars

NetworkFlip ==
  /\ swFlips < MaxFlips
  /\ swFlips' = swFlips + 1
  /\ online' = ~online
  /\ UNCHANGED <<swCache, swTask, swPuts, swStarted, swObs, swQuiet>>
  /\ UNCHANGED <<swExists, lifeVars>>
  /\ UNCHANGED coordVars


\* ------------------------------------- the coordinator behind the proxy
\* the request a coordinator operation fetches: `${API_ENDPOINT}/pictograms`,
\* by POST to create and by GET to list
RequestOf(r) ==
  Request(IF r.op = "createPictogram" THEN "POST" ELSE "GET", ApiUrl)

\* the fetch() of coordinator task t reaches the proxy as a fetch event: the
\* listener picks the strategy, which runs up to its first await
ProxiedFetch(t) ==
  /\ task[t].pc = "fetch"
  /\ swTask[t].pc = "idle"
  /\ controller = "this"
  /\ swLife.state = "activated"
  /\ swStarted' = swStarted + 1
  /\ LET req == RequestOf(task[t])
         c == Classify(req)
     IN /\ swTask' = [swTask EXCEPT ![t] =
             [IdleSw EXCEPT !.strategy = c.strategy, !.pc = c.pc, !.req = req,
                            !.cacheName = c.cacheName, !.seq = swStarted + 1]]
        /\ swObs' = [swObs EXCEPT ![t] =
             [IdleSwObs EXCEPT !.pre = swQuiet[req], !.fetched = c.pc = "nf_fetch"]]
  /\ UNCHANGED <<swCache, swPuts, online, swFlips, swQuiet>>
  /\ UNCHANGED <<swExists, lifeVars>>
  /\ UNCHANGED coordVars

\* the server handles the request the proxy forwarded for task t, and
\* networkFirstStrategy's `await fetch(request)` resolves with its response
ProxiedFetchResponds(t) ==
  /\ task[t].pc = "fetch"
  /\ swTask[t].pc = "nf_fetch"
  /\ online
  /\ \E ok \in BOOLEAN :
       LET r == task[t]
           s == swTask[t]
           ver == IF ok /\ r.op \in WriteOps THEN srvVer + 1 ELSE srvVer
           networkResponse == ServerResponse(r, ok, ver)
       IN /\ srvVer' = ver
          /\ obs' = [obs EXCEPT ![t].applied = IF ok /\ r.op \in WriteOps THEN ver ELSE 0]
          /\ swTask' = [swTask EXCEPT ![t] =
               IF IsCacheable(s.req, networkResponse)
               THEN [s EXCEPT !.pc = "nf_open", !.res = networkResponse]
               ELSE Done(Respond(s, "resolved", networkResponse))]
  /\ swObs' = [swObs EXCEPT ![t].netResp = TRUE]
  /\ UNCHANGED <<now, ticks, store, idbQueue, faults, task, started, quiet, afterCreate>>
  /\ UNCHANGED <<swCache, swPuts, online, swFlips, swStarted, swQuiet>>
  /\ UNCHANGED <<swExists, lifeVars>>

\* event.respondWith settles: the coordinator's `await fetch(...)` resolves
\* with the response the strategy returned, or rejects as the strategy did
ProxyAnswers(t) ==
  /\ task[t].pc = "fetch"
  /\ swTask[t].pc = "done"
  /\ swTask' = [swTask EXCEPT ![t] = IdleSw]
  /\ IF swTask[t].outcome = "resolved"
     THEN /\ task' = [task EXCEPT ![t] = [@ EXCEPT !.pc = "respond",
                                                   !.resp = swTask[t].res]]
          /\ obs' = obs
     ELSE /\ task' = [task EXCEPT ![t] = Finish(task[t], "rejected", Null)]
          /\ obs' = [obs EXCEPT ![t].netErr = TRUE]
  /\ UNCHANGED <<now, ticks, store, idbQueue, faults, srvVer, started, quiet, afterCreate>>
  /\ UNCHANGED <<swCache, swPuts, online, swFlips, swStarted, swObs, swQuiet>>
  /\ UNCHANGED <<swExists, lifeVars>>

\* ------------------------------------------------- the proxy's lifecycle
\* the cacheName field of a message: absent, or a string (possibly empty)
NoName == [given |-> FALSE, name |-> ""]
Name(n) == [given |-> TRUE, name |-> n]
MessageNames == {NoName, Name(""), Name(CACHE_NAMES.static), Name(CACHE_NAMES.api)}

\* `if (event.data.cacheName)`: undefined and the empty string are falsy
TruthyName(cacheName) == cacheName.given /\ cacheName.name # ""

NoMessage ==
  [type |-> "none", cacheName |-> NoName, to |-> "none", pending |-> "none",
   atReceipt |-> {}, deleted |-> {}]

\* a caches.keys() or caches.delete(name) call in progress, and who made it:
\* the activate handler, or the message handler for a named partition or for all
CachesKeysOp(by) == [op |-> "keys", name |-> "", by |-> by]
CachesDeleteOp(name, by) == [op |-> "delete", name |-> name, by |-> by]

\* install handler: waitUntil(caches.open(static).then(addAll ...)) and
\* self.skipWaiting()
InstallEvent ==
  /\ swLife.state = "new"
  /\ swLife' = [swLife EXCEPT !.state = "installing", !.skipWaiting = TRUE]
  /\ UNCHANGED <<swCache, swTask, swPuts, online, swFlips, swStarted, swObs, swQuiet,
                 swExists, controller, swOps, swSent, swHist>>
  /\ UNCHANGED coordVars

InstallFailsWithPrecache(addAllOk) == IF addAllOk THEN "installed" ELSE "redundant"

\* cache.addAll(...).catch(err => console.warn(...)): the promise given to
\* waitUntil resolves whether or not the assets were fetched and stored
InstallOutcome(addAllOk) == "installed"

\* the promise given to waitUntil settles: the static partition is open and
\* cache.addAll stored the bootstrap assets, or failed as a whole and was caught
InstallDone ==
  /\ swLife.state = "installing"
  /\ swExists' = swExists \cup {CACHE_NAMES.static}
  /\ \E ok \in BOOLEAN :
       /\ swCache' = IF ok
                     THEN [swCache EXCEPT ![CACHE_NAMES.static][Request("GET", PageUrl)] =
                             Response(TRUE, 0)]
                     ELSE swCache
       /\ swLife' = [swLife EXCEPT !.state = InstallOutcome(ok)]
  /\ UNCHANGED <<swTask, swPuts, online, swFlips, swStarted, swObs, swQuiet,
                 controller, swOps, swSent, swHist>>
  /\ UNCHANGED coordVars

\* the browser activates an installed instance once no other instance controls
\* a client, or at once if its skip-waiting flag is set; the clients of the
\* instance it replaces pass to it.  activate handler:
\* waitUntil(caches.keys().then(...)) and `return self.clients.claim()`
ActivateEvent ==
  /\ swLife.state = "installed"
  /\ swLife.skipWaiting \/ controller # "prior"
  /\ swLife' = [swLife EXCEPT !.state = "activating", !.claim = "called"]
  /\ controller' = IF controller = "prior" THEN "this" ELSE controller
  /\ swOps' = swOps \cup {CachesKeysOp("activate")}
  /\ UNCHANGED <<swCache, swTask, swPuts, online, swFlips, swStarted, swObs, swQuiet,
                 swExists, swSent, swHist>>
  /\ UNCHANGED coordVars

AllAmong(cacheNames) == cacheNames

\* the names the activate handler deletes:
\* !Object.values(CACHE_NAMES).includes(cacheName)
StaleAmong(cacheNames) == {n \in cacheNames : n \notin CacheNames}

\* caches.keys() resolves with the names of the partitions that exist now; the
\* activate handler deletes the stale ones among them, the message handler all
CachesKeys(o) ==
  /\ o \in swOps
  /\ o.op = "keys"
  /\ LET cacheNames == swExists
         targets == IF o.by = "activate" THEN StaleAmong(cacheNames) ELSE cacheNames
     IN swOps' = (swOps \ {o}) \cup {CachesDeleteOp(n, o.by) : n \in targets}
  /\ UNCHANGED <<swCache, swTask, swPuts, online, swFlips, swStarted, swObs, swQuiet,
                 swExists, swLife, controller, swSent, swHist>>
  /\ UNCHANGED coordVars

\* the invocation holds the Cache object it got from caches.open(name) before
\* its fetch: cacheFirstStrategy and staleWhileRevalidateStrategy
HoldsCache(r, name) == r.cacheName = name /\ r.pc \in {"cf_fetch", "swr_fetch"}

\* history: the invocation has called fetch() and not yet handed the response
\* to cache.put
FetchInFlight(t) ==
  /\ swObs[t].fetched
  /\ swTask[t].pc \in {"cf_fetch", "nf_fetch", "swr_fetch", "nf_open"}

\* caches.delete(name) completes: the partition and its records are gone.  A
\* Cache object opened earlier lives on outside the name map: what is put into
\* it, now or later, is in no partition
CachesDelete(o) ==
  /\ o \in swOps
  /\ o.op = "delete"
  /\ swOps' = swOps \ {o}
  /\ swExists' = swExists \ {o.name}
  /\ swCache' = [n \in PartitionNames |->
       IF n = o.name THEN [q \in Requests |-> NoResp] ELSE swCache[n]]
  /\ swHist' = [swHist EXCEPT
       !.swept = IF o.by = "activate" /\ o.name \in swExists THEN @ \cup {o.name} ELSE @,
       !.msg.deleted = IF o.name \in swExists THEN @ \cup {o.name} ELSE @]
  /\ swQuiet' = [q \in Requests |->
       IF Classify(q).cacheName = o.name THEN NoQuiet ELSE swQuiet[q]]
  /\ swPuts' = {p \in swPuts : p.cacheName # o.name}
  /\ swTask' = [t \in SwTasks |->
       IF HoldsCache(swTask[t], o.name)
       THEN [swTask[t] EXCEPT !.detached = TRUE] ELSE swTask[t]]
  /\ swObs' = [t \in SwTasks |->
       IF o.by # "activate" /\ FetchInFlight(t) /\ swTask[t].cacheName = o.name
       THEN [swObs[t] EXCEPT !.across = TRUE] ELSE swObs[t]]
  /\ UNCHANGED <<online, swFlips, swStarted, swLife, controller, swSent>>
  /\ UNCHANGED coordVars

\* the promise given to waitUntil by the activate handler settles
ActivationCompletes ==
  /\ swLife.state = "activating"
  /\ ~\E o \in swOps : o.by = "activate"
  /\ swLife' = [swLife EXCEPT !.state = "activated"]
  /\ UNCHANGED <<swCache, swTask, swPuts, online, swFlips, swStarted, swObs, swQuiet,
                 swExists, controller, swOps, swSent, swHist>>
  /\ UNCHANGED coordVars

\* self.clients.claim() takes effect: this instance controls the open clients
ClaimTakesEffect ==
  /\ swLife.claim = "called"
  /\ swLife' = [swLife EXCEPT !.claim = "done"]
  /\ controller' = "this"
  /\ UNCHANGED <<swCache, swTask, swPuts, online, swFlips, swStarted, swObs, swQuiet,
                 swExists, swOps, swSent, swHist>>
  /\ UNCHANGED coordVars

\* history: the application posts a message; navigator.serviceWorker.controller
\* receives it
Posted(type, cacheName) ==
  [swHist EXCEPT !.msg =
     [type |-> type, cacheName |-> cacheName, to |-> controller,
      pending |-> swLife.state, atReceipt |-> swExists, deleted |-> {}]]

InvalidateAll(cacheName) == {CachesKeysOp("all")}

\* message handler, INVALIDATE_CACHE: caches.delete(cacheName) if cacheName is
\* truthy, else caches.keys().then(delete each); nothing is awaited
InvalidateOps(cacheName) ==
  IF TruthyName(cacheName)
  THEN {CachesDeleteOp(cacheName.name, "named")}
  ELSE {CachesKeysOp("all")}

\* storageService invalidateCache(cacheName?): posts INVALIDATE_CACHE to the
\* controlling instance, whose message handler runs
PostInvalidateCache(cacheName) ==
  /\ controller # "none"
  /\ swSent < MaxMessages
  /\ swSent' = swSent + 1
  /\ swHist' = Posted("INVALIDATE_CACHE", cacheName)
  /\ swOps' = IF controller = "this" THEN swOps \cup InvalidateOps(cacheName) ELSE swOps
  /\ UNCHANGED <<swCache, swTask, swPuts, online, swFlips, swStarted, swObs, swQuiet,
                 swExists, swLife, controller>>
  /\ UNCHANGED coordVars

\* storageService skipWaiting(): posts SKIP_WAITING to the controlling
\* instance, whose message handler calls self.skipWaiting()
PostSkipWaiting ==
  /\ controller # "none"
  /\ swSent < MaxMessages
  /\ swSent' = swSent + 1
  /\ swHist' = Posted("SKIP_WAITING", NoName)
  /\ swLife' = IF controller = "this" THEN [swLife EXCEPT !.skipWaiting = TRUE] ELSE swLife
  /\ UNCHANGED <<swCache, swTask, swPuts, online, swFlips, swStarted, swObs, swQuiet,
                 swExists, controller, swOps>>
  /\ UNCHANGED coordVars

\* ------------------------------------------------------------ specifications
NoRecords == [n \in PartitionNames |-> [q \in Requests |-> NoResp]]

\* fetch handling: no strategy invocation, no cache.put in progress
InitFetch ==
  /\ swTask = [t \in SwTasks |-> IdleSw]
  /\ swPuts = {}
  /\ online = TRUE
  /\ swFlips = 0
  /\ swStarted = 0
  /\ swObs = [t \in SwTasks |-> IdleSwObs]
  /\ swQuiet = [q \in Requests |-> NoQuiet]

\* a first deployment, activated and in control; its bootstrap pre-cache failed
InitSW ==
  /\ InitFetch
  /\ swExists = {CACHE_NAMES.static}
  /\ swLife = [state |-> "activated", skipWaiting |-> TRUE, claim |-> "done"]
  /\ controller = "this"
  /\ swOps = {}
  /\ swSent = 0
  /\ swHist = [swept |-> {}, msg |-> NoMessage]
  /\ swCache = NoRecords

Init == InitCoord /\ store \in {EmptyStore, PopulatedStore} /\ InitSW

\* the API partition after an earlier session listed the collection through
\* the proxy: it holds the response to GET <API_ENDPOINT>/pictograms
ListCopy ==
  [NoRecords EXCEPT ![CACHE_NAMES.api][Request("GET", ApiUrl)] =
     [ok |-> TRUE, body |-> [list |-> TRUE, ver |-> 0]]]

\* the application behind its proxy, in a first or in a later session
InitTiers ==
  /\ InitCoord
  /\ store \in {EmptyStore, PopulatedStore}
  /\ InitFetch
  /\ swLife = [state |-> "activated", skipWaiting |-> TRUE, claim |-> "done"]
  /\ controller = "this"
  /\ swOps = {}
  /\ swSent = 0
  /\ swHist = [swept |-> {}, msg |-> NoMessage]
  /\ \/ swCache = NoRecords /\ swExists = {CACHE_NAMES.static}
     \/ swCache = ListCopy /\ swExists = {CACHE_NAMES.static, CACHE_NAMES.api}
InitStore == InitCoord /\ store = EmptyStore /\ InitSW
InitProxy == InitCoord /\ store = EmptyStore /\ InitSW

\* a new deployment is registered, while an instance of an earlier version
\* controls the application or while none does: the earlier version's
\* partition exists, and the API partition too if the earlier deployment had
\* the same CACHE_VERSION
InitLife ==
  /\ InitCoord
  /\ store = EmptyStore
  /\ InitFetch
  /\ swLife = [state |-> "new", skipWaiting |-> FALSE, claim |-> "no"]
  /\ controller \in {"none", "prior"}
  /\ swOps = {}
  /\ swSent = 0
  /\ swHist = [swept |-> {}, msg |-> NoMessage]
  /\ swExists \in {StaleNames, StaleNames \cup {CACHE_NAMES.api}}
  /\ swCache = [n \in PartitionNames |-> [q \in Requests |->
       IF \/ n \in StaleNames /\ n \in swExists /\ q = Request("GET", PageUrl)
          \/ n = CACHE_NAMES.api /\ n \in swExists /\ q = Request("GET", ApiUrl)
       THEN Response(TRUE, 0) ELSE NoResp]]

NextStore ==
  \/ \E t \in Tasks, k \in Keys, v \in Values, ttl \in TTLs : CallSaveToCache(t, k, v, ttl)
  \/ \E t \in Tasks, k \in Keys : CallGetFromCache(t, k)
  \/ \E t \in Tasks, k \in Keys : CallDeleteFromCache(t, k)
  \/ \E t \in Tasks : CallClearCache(t)
  \/ Tick
  \/ IdbOpen
  \/ IdbRequest

Next ==
  \/ \E t \in Tasks, userId \in BOOLEAN : listPictograms(t, userId)
  \/ \E t \in Tasks, id \in Ids : getPictogram(t, id)
  \/ \E t \in Tasks : createPictogram(t)
  \/ \E t \in Tasks, id \in Ids, u \in UpdateSets : updatePictogram(t, id, u)
  \/ \E t \in Tasks, id \in Ids : deletePictogram(t, id)
  \/ \E t \in Tasks : ServerHandle(t)
  \/ \E t \in Tasks : NetFail(t)
  \/ \E t \in Tasks : Deliver(t)
  \/ Tick
  \/ IdbOpen
  \/ IdbRequest

\* the coordinator called with any string as an id: getPictogram(id: string)
\* accepts the reserved list key as well
NextIds ==
  \/ Next
  \/ \E t \in Tasks : getPictogram(t, LIST_CACHE_KEY)

NextSW ==
  \/ \E t \in SwTasks, req \in PageRequests : FetchEvent(t, req)
  \/ \E t \in SwTasks : getUploadUrl(t)
  \/ \E t \in SwTasks : CacheFirstLookup(t)
  \/ \E t \in SwTasks : NetworkFirstStore(t)
  \/ \E t \in SwTasks : NetworkFirstFallback(t)
  \/ \E t \in SwTasks : StaleWhileRevalidateLookup(t)
  \/ \E t \in SwTasks : FetchResponds(t)
  \/ \E t \in SwTasks : FetchRejects(t)
  \/ \E p \in swPuts : CachePutCompletes(p)
  \/ \E p \in swPuts : CachePutFails(p)
  \/ NetworkFlip

\* the coordinator's list reads and creates, their requests going through the
\* proxy's network-first strategy
NextTiers ==
  \/ \E t \in Tasks : listPictograms(t, FALSE)
  \/ \E t \in Tasks : createPictogram(t)
  \/ \E t \in Tasks : ProxiedFetch(t)
  \/ \E t \in Tasks : ProxiedFetchResponds(t)
  \/ \E t \in Tasks : FetchRejects(t)
  \/ \E t \in Tasks : NetworkFirstStore(t)
  \/ \E t \in Tasks : NetworkFirstFallback(t)
  \/ \E p \in swPuts : CachePutCompletes(p)
  \/ \E p \in swPuts : CachePutFails(p)
  \/ NetworkFlip
  \/ \E t \in Tasks : ProxyAnswers(t)
  \/ \E t \in Tasks : Deliver(t)
  \/ Tick
  \/ IdbOpen
  \/ IdbRequest

\* the proxy in control, serving fetch events while the application posts
\* INVALIDATE_CACHE messages
NextInval ==
  /\ \/ NextSW
     \/ \E cacheName \in MessageNames : PostInvalidateCache(cacheName)
     \/ \E o \in swOps : CachesKeys(o)
     \/ \E o \in swOps : CachesDelete(o)
  /\ swStarted' <= MaxAcross
  /\ swSent' <= MaxInvalidations

NextLife ==
  \/ InstallEvent
  \/ InstallDone
  \/ ActivateEvent
  \/ \E o \in swOps : CachesKeys(o)
  \/ \E o \in swOps : CachesDelete(o)
  \/ ActivationCompletes
  \/ ClaimTakesEffect
  \/ \E cacheName \in MessageNames : PostInvalidateCache(cacheName)
  \/ PostSkipWaiting

\* the cache coordinator over the structured store
Spec == Init /\ [][Next]_vars
\* the cache coordinator called with any key as an id
SpecIds == Init /\ [][NextIds]_vars
\* the structured store used directly
SpecStore == InitStore /\ [][NextStore]_vars
\* the request proxy
SpecSW == InitProxy /\ [][NextSW]_vars
\* the cache coordinator with the request proxy between it and the network
SpecTiers == InitTiers /\ [][NextTiers]_vars
\* the request proxy serving requests across cache invalidations
SpecInval == InitProxy /\ [][NextInval]_vars
\* the request proxy's lifecycle and the messages of the application
SpecLife == InitLife /\ [][NextLife]_vars

\* the browser dispatches each lifecycle event that is due and the cache
\* operations in progress settle; the application need never post a message
FairLife ==
  /\ WF_vars(InstallEvent)
  /\ WF_vars(InstallDone)
  /\ WF_vars(ActivateEvent)
  /\ WF_vars(\E o \in swOps : CachesKeys(o))
  /\ WF_vars(\E o \in swOps : CachesDelete(o))
  /\ WF_vars(ActivationCompletes)
  /\ WF_vars(ClaimTakesEffect)
SpecLifeFair == SpecLife /\ FairLife

\* ================================================================ the claims

\* a direct getFromCache(k) has returned; it was invoked after a put(k, v, ttl)
\* had completed, and no time elapsed and no other call touching k was made
\* between that completion and this return
GetFollowsPut(t) ==
  /\ task[t].op = "getFromCache"
  /\ task[t].pc = "done"
  /\ obs[t].undisturbed

GetReturnsExpired(t) ==
  /\ task[t].op = "getFromCache"
  /\ task[t].pc # "done"
  /\ task'[t].pc = "done"
  /\ faults' = faults
  /\ store[task[t].key].present
  /\ now > store[task[t].key].expiresAt

\* C2: after put(k, v, ttl) and time advancing past ttl, get(k)
\* returns none, and at the moment get(k) has returned the entry for k is
\* physically absent from the store.
C2_ExpiredEntryAbsentOnReturn ==
  [][\A t \in Tasks :
       GetReturnsExpired(t) =>
         /\ task'[t].outcome = "resolved" /\ task'[t].res = Null
         /\ ~store'[task[t].key].present]_vars

\* C7: on any storage failure getFromCache resolves with none and saveToCache,
\* deleteFromCache and clearCache resolve without effect; none of them rejects.
C7_StorageFailureNeverRejects ==
  \A t \in Tasks :
    (task[t].op \in StoreOps /\ task[t].pc = "done" /\ obs[t].sfail)
      => task[t].outcome = "resolved" /\ task[t].res = Null

\* an unfiltered listPictograms has resolved; it was the first list read
\* invoked after a createPictogram completed successfully while the list key
\* was populated
ListReadAfterCreate(t) ==
  /\ task[t].op = "listPictograms" /\ ~task[t].filtered
  /\ task[t].pc = "done" /\ task[t].outcome = "resolved"
  /\ obs[t].afterCreate.populated

C4_NoStaleListAfterMutation ==
  ((\A t \in Tasks : Free(t)) /\ idbQueue = <<>> /\ faults = 0)
    => \A t \in Tasks :
         (/\ task[t].op \in WriteOps
          /\ task[t].outcome = "resolved"
          /\ obs[t].applied > 0
          /\ store[LIST_CACHE_KEY].present)
           => store[LIST_CACHE_KEY].data.ver >= obs[t].applied

\* updatePictogram(id, updates) returns in this step, after a non-success response
UpdateReturnsAfterNonSuccess(t) ==
  /\ task[t].op = "updatePictogram"
  /\ task[t].pc \in {"inval1", "inval2"}
  /\ ~task[t].resp.ok
  /\ task'[t].pc = "done"

\* the object { id, ...updates }
IsSynthesized(res, id, updates) ==
  /\ DOMAIN res = DOMAIN updates \cup {"id"}
  /\ \A f \in DOMAIN updates : res[f] = updates[f]
  /\ "id" \notin DOMAIN updates => res.id = id

SoftFailureResult(t) ==
  /\ task'[t].outcome = "resolved"
  /\ IsSynthesized(task'[t].res, task[t].key, task[t].arg)
  /\ ~store'[task[t].key].present
  /\ ~store'[LIST_CACHE_KEY].present

C6_UpdateDegradesOnTransportFailure ==
  \A t \in Tasks :
    (task[t].op = "updatePictogram" /\ task[t].pc = "done" /\ obs[t].netErr)
      => /\ task[t].outcome = "resolved"
         /\ IsSynthesized(task[t].res, task[t].key, task[t].arg)

\* C8: whenever the request of listPictograms or getPictogram gets a success
\* response the call resolves with the server's payload, whatever storage
\* failure the cache lookup or the cache write met; a storage failure is never
\* the reason a coordinator read rejects.
C8_ReadsSurviveStorageFailure ==
  \A t \in Tasks :
    (task[t].op \in ReadOps /\ task[t].pc = "done")
      => /\ obs[t].netOk =>
              task[t].outcome = "resolved" /\ task[t].res = task[t].resp.body
         /\ task[t].outcome = "rejected" =>
              obs[t].netErr \/ (obs[t].fetched /\ ~obs[t].netOk)

\* a cache-first invocation has returned; its fetch event arrived after an
\* earlier invocation for the same request had returned a success response
\* fresh from the network, and the network gave this one no response
SecondFetch(t) ==
  /\ swTask[t].strategy = "cacheFirst"
  /\ swTask[t].pc = "done"
  /\ swObs[t].pre.on
  /\ ~swObs[t].netResp

\* C9: for two sequential fetches of the same immutable-media URL where the
\* first gets a success response from the network and the network fails for
\* every request after the first has returned, both fetches succeed and the
\* second is served from the cache.
C9_SecondFetchServedFromCache ==
  \A t \in SwTasks :
    SecondFetch(t)
      => /\ swTask[t].outcome = "resolved"
         /\ swTask[t].cached # NoResp
         /\ swTask[t].res = swTask[t].cached

\* cacheFirstStrategy passes its `await cache.match(request)` in this step
\* while the images partition holds a record for the request
CacheFirstHit(t) ==
  /\ swTask[t].strategy = "cacheFirst"
  /\ swTask[t].pc = "cf_lookup"
  /\ swTask'[t] # swTask[t]
  /\ swCache[CACHE_NAMES.images][swTask[t].req] # NoResp

\* C10: whenever the images partition holds a record for the request identity,
\* cacheFirstStrategy returns that record and issues no network request for it.
C10_CacheFirstHitSkipsNetwork ==
  [][\A t \in SwTasks :
       CacheFirstHit(t)
         => /\ swTask'[t].pc = "done"
            /\ swTask'[t].outcome = "resolved"
            /\ swTask'[t].res = swCache[CACHE_NAMES.images][swTask[t].req]
            /\ ~swObs'[t].fetched
            /\ ~swObs'[t].netResp]_vars

C10_Witness ==
  \E t \in SwTasks :
    /\ swTask[t].strategy = "cacheFirst" /\ swTask[t].pc = "done"
    /\ swTask[t].cached # NoResp
    /\ swTask[t].cached = swCache[CACHE_NAMES.images][swTask[t].req]
    /\ swTask[t].outcome = "resolved" /\ swTask[t].res = swTask[t].cached
    /\ ~swObs[t].fetched

\* a direct getFromCache(k) has returned; it was invoked after a deleteFromCache(k)
\* had completed, with no other call on k in between
GetFollowsDelete(t) ==
  /\ task[t].op = "getFromCache"
  /\ task[t].pc = "done"
  /\ obs[t].afterDelete

\* a direct deleteFromCache(k) completes in this step, k having no entry
DeleteOfAbsentKeyReturns(t) ==
  /\ task[t].op = "deleteFromCache"
  /\ task[t].pc # "done"
  /\ task'[t].pc = "done"
  /\ ~store[task[t].key].present

NetworkFirstOffline(t) ==
  /\ swTask[t].strategy = "networkFirst"
  /\ swTask[t].pc = "done"
  /\ ~swObs[t].netResp

\* C11: a successful online GET populates the API partition; a later fetch of
\* the same request while the network fails returns the last stored response;
\* a fetch while the network fails and no record exists propagates the failure.
C11_NetworkFirstFallback ==
  \A t \in SwTasks :
    NetworkFirstOffline(t)
      => /\ swObs[t].pre.on =>
              /\ swTask[t].outcome = "resolved"
              /\ swTask[t].cached # NoResp
              /\ swTask[t].res = swTask[t].cached
         /\ swTask[t].cached = NoResp /\ ~swObs[t].pre.on =>
              swTask[t].outcome = "rejected"

\* C12: in every reachable state the API partition contains records only for
\* read-only (GET) requests: networkFirstStrategy never stores, nor starts to
\* store, the response of a request with another method, whatever its status.
C12_ApiPartitionHoldsOnlyGets ==
  /\ \A q \in Requests : swCache[CACHE_NAMES.api][q] # NoResp => q.method = "GET"
  /\ \A p \in swPuts : p.cacheName = CACHE_NAMES.api => p.req.method = "GET"

C12_Witness ==
  /\ swCache[CACHE_NAMES.api][Request("GET", ApiUrl)] # NoResp
  /\ swCache[CACHE_NAMES.api][Request("POST", ApiUrl)] = NoResp
  /\ \E t \in SwTasks :
       /\ swTask[t].strategy = "networkFirst" /\ swTask[t].pc = "done"
       /\ swTask[t].req = Request("POST", ApiUrl)
       /\ swObs[t].netResp /\ swTask[t].outcome = "resolved" /\ swTask[t].res.ok

\* staleWhileRevalidateStrategy passes its `await cache.match(request)` in this step
SwrLookup(t) ==
  /\ swTask[t].strategy = "staleWhileRevalidate"
  /\ swTask[t].pc = "swr_lookup"
  /\ swTask'[t] # swTask[t]

\* C13: a request for which the default partition already holds a record is
\* answered with that record without waiting for the network call that is
\* issued concurrently: the answer is given while the call is in flight, and
\* nothing the call does later changes it.
C13_StaleAnswerDoesNotWait ==
  [][\A t \in SwTasks :
       /\ (SwrLookup(t) /\ swCache[CACHE_NAMES.static][swTask[t].req] # NoResp)
            => /\ swTask'[t].answered
               /\ swTask'[t].outcome = "resolved"
               /\ swTask'[t].res = swCache[CACHE_NAMES.static][swTask[t].req]
               /\ swTask'[t].pc = "swr_fetch"
               /\ swObs'[t].fetched /\ ~swObs'[t].netResp
       /\ (swTask[t].answered /\ swTask'[t].seq = swTask[t].seq)
            => /\ swTask'[t].answered
               /\ swTask'[t].outcome = swTask[t].outcome
               /\ swTask'[t].res = swTask[t].res]_vars

C13_Witness ==
  \E t \in SwTasks :
    /\ swTask[t].strategy = "staleWhileRevalidate"
    /\ swTask[t].pc = "swr_fetch"
    /\ swTask[t].answered /\ swTask[t].outcome = "resolved"
    /\ swTask[t].cached # NoResp /\ swTask[t].res = swTask[t].cached
    /\ ~online

\* C14, as stated: when the background fetch succeeds with a success response
\* it replaces the record so the next request sees the new copy.
C14_NextRequestSeesNewCopy ==
  [][\A t \in SwTasks :
       (SwrLookup(t) /\ swQuiet[swTask[t].req].on /\ swQuiet[swTask[t].req].bg)
         => swTask'[t].answered /\ swTask'[t].res = swQuiet[swTask[t].req].resp]_vars

\* the background fetch of an answered stale-while-revalidate invocation
\* rejects in this step
BackgroundFetchFails(t) ==
  /\ swTask[t].strategy = "staleWhileRevalidate"
  /\ swTask[t].pc = "swr_fetch"
  /\ swTask[t].answered
  /\ swTask'[t].pc = "done"
  /\ ~swObs'[t].netResp

\* C14, amended: when the background fetch succeeds with a success response
\* the record is replaced once the cache.put it starts has completed: a request
\* looked up after that, and before another put or a deletion for the request
\* completes, sees the new copy.  When the fetch fails, the failure is
\* swallowed, the already-returned response is unaffected and the stored
\* records are left unchanged.
C14_NextRequestSeesStoredCopy ==
  [][\A t \in SwTasks :
       /\ (SwrLookup(t) /\ swQuiet[swTask[t].req].on /\ swQuiet[swTask[t].req].stored)
            => swTask'[t].answered /\ swTask'[t].res = swQuiet[swTask[t].req].resp
       /\ BackgroundFetchFails(t)
            => /\ swTask'[t].outcome = "resolved"
               /\ swTask'[t].res = swTask[t].res
               /\ swCache' = swCache
               /\ swPuts' = swPuts]_vars

C14_Witness ==
  \E t \in SwTasks :
    /\ swTask[t].strategy = "staleWhileRevalidate"
    /\ swTask[t].answered
    /\ swObs[t].pre.on /\ swObs[t].pre.bg /\ swObs[t].pre.stored
    /\ swTask[t].res = swObs[t].pre.resp

\* the partition and strategy the classification rules assign to a request
\* when the second rule is read as a match of the API origin
ByOrigin(req) ==
  IF S3_PATTERN(req.url.host)
  THEN [strategy |-> "cacheFirst", cacheName |-> CACHE_NAMES.images]
  ELSE IF Origin(req.url) = Origin(API_ENDPOINT)
  THEN [strategy |-> "networkFirst", cacheName |-> CACHE_NAMES.api]
  ELSE [strategy |-> "staleWhileRevalidate", cacheName |-> CACHE_NAMES.static]

\* C15: every intercepted request is handled by exactly one strategy: a request
\* whose host matches the binary-asset pattern goes to the cache-first images
\* partition, otherwise a request matching the API origin goes to the
\* network-first API partition, and every other request goes to the
\* stale-while-revalidate default partition.
C15_ClassificationByOrigin ==
  \A t \in SwTasks :
    swTask[t].pc # "idle"
      => /\ swTask[t].strategy = ByOrigin(swTask[t].req).strategy
         /\ swTask[t].cacheName = ByOrigin(swTask[t].req).cacheName

\* C16: when the activation step has completed, every partition whose name is
\* not one of the three current-version partition names has been deleted, and
\* the sweep has deleted no current-version partition (hence no record in one).
C16_SweepDeletesExactlyStale ==
  /\ swHist.swept \cap CacheNames = {}
  /\ swLife.state = "activated" => swExists \subseteq CacheNames

C16_Witness ==
  /\ swLife.state = "activated"
  /\ swHist.swept = StaleNames
  /\ {CACHE_NAMES.static, CACHE_NAMES.api} \subseteq swExists
  /\ swCache[CACHE_NAMES.static][Request("GET", PageUrl)] # NoResp
  /\ swCache[CACHE_NAMES.api][Request("GET", ApiUrl)] # NoResp

\* C17: during ACTIVATING the proxy first deletes every partition not matching
\* the current CacheVersion and only then claims control: the claim never
\* takes effect while a stale-version partition still exists.
C17_ClaimAfterSweep ==
  [][(swLife.claim = "called" /\ swLife'.claim = "done")
       => swExists \cap StaleNames = {}]_vars

\* ---- C18
\* a step in which the application posts INVALIDATE_CACHE and this instance,
\* being the controller, handles it
InvalidatePosted ==
  /\ swSent' = swSent + 1
  /\ swHist'.msg.type = "INVALIDATE_CACHE"
  /\ controller = "this"

\* the last message is an INVALIDATE_CACHE this instance received, and none of
\* the cache operations of that kind of message is still in progress
InvalidateHandled(by) ==
  /\ swHist.msg.type = "INVALIDATE_CACHE"
  /\ swHist.msg.to = "this"
  /\ ~\E o \in swOps : o.by = by

\* every partition the last message was to delete is gone once its cache
\* operations are over: the named one, or all that existed at receipt
InvalidateDone(IsNamed(_)) ==
  /\ (InvalidateHandled("named") /\ IsNamed(swHist.msg.cacheName)) =>
       swHist.msg.cacheName.name \notin swExists
  /\ (InvalidateHandled("all") /\ ~IsNamed(swHist.msg.cacheName)) =>
       swExists \cap swHist.msg.atReceipt = {}

\* IsNamed tells the messages that are to delete one partition from those that
\* are to delete all: the former start caches.delete of that name alone, whose
\* completion removes that partition and changes no other; the latter start
\* the deletion of every partition
InvalidateHandling(IsNamed(_)) ==
  /\ InvalidatePosted =>
       swOps' = swOps \cup
         (IF IsNamed(swHist'.msg.cacheName)
          THEN {CachesDeleteOp(swHist'.msg.cacheName.name, "named")}
          ELSE {CachesKeysOp("all")})
  /\ \A o \in swOps :
       (o.op = "delete" /\ o.by = "named" /\ swOps' = swOps \ {o}) =>
         /\ swExists' = swExists \ {o.name}
         /\ \A n \in PartitionNames \ {o.name} : swCache'[n] = swCache[n]
  /\ InvalidateDone(IsNamed)'

GivenName(cacheName) == cacheName.given

\* C18 (as stated): an INVALIDATE_CACHE message with a cacheName deletes
\* exactly the named partition and leaves the other partitions unchanged; a
\* message without cacheName deletes every partition.
C18_InvalidateByGivenName == [][InvalidateHandling(GivenName)]_vars

\* C18 (amended): an INVALIDATE_CACHE message with a non-empty cacheName
\* deletes exactly the named partition and leaves the other partitions
\* unchanged; a message without cacheName, or with the empty string as
\* cacheName, deletes every partition.
C18_InvalidateByTruthyName == [][InvalidateHandling(TruthyName)]_vars

C18_Witness ==
  /\ InvalidateHandled("named")
  /\ swHist.msg.cacheName = Name(CACHE_NAMES.static)
  /\ CACHE_NAMES.static \in swHist.msg.atReceipt
  /\ CACHE_NAMES.static \notin swExists
  /\ CACHE_NAMES.api \in swExists
  /\ swCache[CACHE_NAMES.api][Request("GET", ApiUrl)] # NoResp

C18_WitnessAll ==
  /\ InvalidateHandled("all")
  /\ swHist.msg.cacheName = NoName
  /\ {CACHE_NAMES.static, CACHE_NAMES.api} \subseteq swHist.msg.atReceipt
  /\ swExists = {}

RequestApplied ==
  /\ idbQueue # <<>>
  /\ Head(idbQueue).phase = "req"
  /\ Len(idbQueue') >= Len(idbQueue) - 1
  /\ SubSeq(idbQueue', 1, Len(idbQueue) - 1) = Tail(idbQueue)
  /\ ~(Len(idbQueue') >= Len(idbQueue) /\ SubSeq(idbQueue', 1, Len(idbQueue)) = idbQueue)
  /\ faults' = faults

\* the entry a put carries is the one it built: its own data, and both clock
\* readings its own
BuiltBy(c) ==
  /\ c.item.present
  /\ c.item.data = c.data
  /\ c.item.expiresAt - c.item.timestamp \in {c.ttl, c.ttl + 1}

\* C21: concurrent puts on the same key resolve last-write-wins: each put whose
\* store request is applied replaces the entry of its key by exactly the entry
\* it built (data, timestamp and expiresAt all its own, never a mix) and
\* leaves the entries under other keys as they were, and an entry changes in
\* no other way than by a store request on its key being applied; so after
\* all puts have completed the entry is that of the put applied last.
C21_LastWriteWins ==
  [][/\ (RequestApplied /\ Head(idbQueue).fn = "put") =>
          /\ BuiltBy(Head(idbQueue))
          /\ store'[Head(idbQueue).key] = Head(idbQueue).item
          /\ \A k \in Keys \ {Head(idbQueue).key} : store'[k] = store[k]
     /\ \A k \in Keys :
          store'[k] # store[k] =>
            /\ RequestApplied
            /\ Head(idbQueue).fn # "get"
            /\ Touches(Head(idbQueue), k)]_vars

\* two puts on one key with different data were in progress at once, both have
\* completed without a storage failure, and the entry is the one of the put
\* applied last, while the other key's entry is absent as before
C21_Witness ==
  /\ started = 2 /\ faults = 0 /\ idbQueue = <<>>
  /\ \A t \in Tasks : task[t].op = "saveToCache" /\ task[t].pc = "done"
  /\ task[1].key = "p1" /\ task[2].key = "p1"
  /\ task[1].arg = [val |-> "a"] /\ task[2].arg = [val |-> "b"]
  /\ store["p1"].present /\ store["p1"].data = task[2].arg
  /\ store["p1"].expiresAt = store["p1"].timestamp + 1
  /\ ~store[LIST_CACHE_KEY].present


\* ---- C22
\* networkFirstStrategy returns in this step with a non-success response to a
\* read (GET) of the API, while the API partition holds a stored copy for it
NonSuccessWithStoredCopy(t) ==
  /\ swTask[t].strategy = "networkFirst"
  /\ swTask[t].req.method = "GET"
  /\ swTask[t].pc = "nf_fetch"
  /\ swTask'[t].pc = "done"
  /\ swObs'[t].netResp
  /\ swCache[CACHE_NAMES.api][swTask[t].req] # NoResp

\* C22: a non-2xx API response to a read is handled identically to a network
\* failure of that read: the last stored copy is served if one is available,
\* and the failure propagates only if none is.
C22_NonSuccessServedFromStoredCopy ==
  [][\A t \in SwTasks :
       NonSuccessWithStoredCopy(t)
         => /\ swTask'[t].outcome = "resolved"
            /\ swTask'[t].res = swCache[CACHE_NAMES.api][swTask[t].req]]_vars


\* ---- C23
HardFailOps == {"createPictogram", "deletePictogram"}

\* the request of a create or delete ends in this step without a success
\* response: fetch() rejects, or a non-2xx response reaches the call
RequestEndsWithoutSuccess(t) ==
  /\ task[t].op \in HardFailOps
  /\ task[t].pc \in {"fetch", "respond"}
  /\ task'[t] # task[t]
  /\ obs'[t].netErr \/ (task[t].pc = "respond" /\ ~task[t].resp.ok)

\* C23: create and delete fail hard: when the network request fails or returns
\* a non-2xx response, createPictogram / deletePictogram rejects, and the call
\* leaves the structured store as it was: it makes no store call, at that
\* moment or at any other (no entity or list key is invalidated).
C23_CreateDeleteFailHard ==
  [][/\ \A t \in Tasks :
          RequestEndsWithoutSuccess(t)
            => /\ task'[t].pc = "done"
               /\ task'[t].outcome = "rejected"
               /\ store' = store
               /\ idbQueue' = idbQueue
     /\ \A i \in DOMAIN idbQueue' :
          (idbQueue'[i].task # Detached /\ task'[idbQueue'[i].task].op \in HardFailOps)
            => obs'[idbQueue'[i].task].netOk]_vars

\* a delete alone, answered non-2xx, has rejected and the populated store is intact
C23_Witness ==
  /\ started = 1
  /\ task[1].op = "deletePictogram" /\ task[1].pc = "done"
  /\ obs[1].fetched /\ ~obs[1].netOk /\ ~obs[1].netErr
  /\ task[1].outcome = "rejected"
  /\ store = PopulatedStore
  /\ idbQueue = <<>>


\* ---- C24
\* deletePictogram(id) returns successfully in this step
DeleteReturns(t) ==
  /\ task[t].op = "deletePictogram"
  /\ task[t].pc # "done"
  /\ task'[t].pc = "done"
  /\ task'[t].outcome = "resolved"

\* C24: when deletePictogram(id) returns successfully, both the entity key id
\* and the list key are absent from the structured store (absent any storage
\* failure and any concurrent write to those keys).
C24_DeleteInvalidatesBothKeys ==
  [][\A t \in Tasks :
       (DeleteReturns(t) /\ ~obs'[t].sfail /\ ~obs'[t].conc)
         => /\ ~store'[task[t].key].present
            /\ ~store'[LIST_CACHE_KEY].present]_vars

\* a delete has returned successfully after a list read that ran concurrently
\* with its request; both keys were populated and both are absent
C24_Witness ==
  /\ started = 2
  /\ store = EmptyStore
  /\ task[1].op = "listPictograms" /\ task[1].pc = "done" /\ ~obs[1].fetched
  /\ task[1].res = [list |-> TRUE, ver |-> 0]
  /\ task[2].op = "deletePictogram" /\ task[2].pc = "done"
  /\ task[2].outcome = "resolved"
  /\ obs[2].netOk /\ obs[2].applied = 1 /\ ~obs[2].sfail /\ ~obs[2].conc


\* ---- C25
\* C25: createPictogram always issues a network request, and on success its
\* only effect on the structured store is removal of the list key: the one
\* store call it ever makes is the delete of the list key, made after the
\* success response, whose application removes that entry and changes no
\* other; it writes no entry (in particular none for the created record's id)
\* and changes no entity entry.
C25_CreateOnlyRemovesListKey ==
  [][/\ \A t \in Tasks :
          task'[t].op = "createPictogram" => obs'[t].fetched
     /\ \A i \in DOMAIN idbQueue' :
          LET c == idbQueue'[i] IN
          (c.task # Detached /\ task'[c.task].op = "createPictogram")
            => c.fn = "delete" /\ c.key = LIST_CACHE_KEY /\ obs'[c.task].netOk
     /\ (/\ RequestApplied
         /\ Head(idbQueue).task # Detached
         /\ task[Head(idbQueue).task].op = "createPictogram")
          => store' = [store EXCEPT ![LIST_CACHE_KEY] = NoEntry]
     /\ store' # store => RequestApplied]_vars

\* a create alone has returned the created record; the list key, populated
\* before, is absent, and the entity entry of that id is the one stored before
C25_Witness ==
  /\ started = 1
  /\ task[1].op = "createPictogram" /\ task[1].pc = "done"
  /\ task[1].outcome = "resolved"
  /\ task[1].res = [id |-> "p1", ver |-> 1]
  /\ obs[1].fetched /\ obs[1].netOk /\ ~obs[1].sfail
  /\ ~store[LIST_CACHE_KEY].present
  /\ store["p1"] = PopulatedStore["p1"]


\* ---- C26
FilteredList(r) == r.op = "listPictograms" /\ r.filtered

\* C26: a scoped/filtered list query (listPictograms with a userId) bypasses
\* the structured store entirely: it always issues a network request, makes no
\* store call at all (so it leaves every entry, the list key included, as it
\* is), and what it returns is the body of the response it received, never the
\* cached list entry.
C26_FilteredListBypassesStore ==
  [][/\ \A t \in Tasks :
          FilteredList(task'[t]) =>
            /\ obs'[t].fetched
            /\ task'[t].pc = "done" =>
                 IF obs'[t].netOk
                 THEN task'[t].outcome = "resolved" /\ task'[t].res = task'[t].resp.body
                 ELSE task'[t].outcome = "rejected"
            /\ task'[t] # task[t] => store' = store /\ Len(idbQueue') <= Len(idbQueue)
     /\ \A i \in DOMAIN idbQueue' :
          idbQueue'[i].task # Detached => ~FilteredList(task'[idbQueue'[i].task])]_vars

\* the list key holds a live collection fetched before a create was applied;
\* a filtered list query has returned the server's newer collection, and the
\* store is as it was
C26_Witness ==
  /\ store = PopulatedStore
  /\ now <= store[LIST_CACHE_KEY].expiresAt
  /\ \E t \in Tasks :
       /\ FilteredList(task[t]) /\ task[t].pc = "done"
       /\ task[t].outcome = "resolved"
       /\ task[t].res = [list |-> TRUE, ver |-> 1]
       /\ obs[t].fetched /\ obs[t].netOk


\* ---- C27, C28
\* the cache lookup of read t settles in this step
LookupSettles(t) ==
  /\ task[t].op \in ReadOps /\ ~task[t].filtered
  /\ task[t].pc = "lookup"
  /\ task'[t].pc # "lookup"

\* read t returns in this step from its write-back, after a success response
WriteBackReturns(t) ==
  /\ task[t].op \in ReadOps /\ ~task[t].filtered
  /\ task[t].pc = "write"
  /\ task'[t].pc = "done"

\* read t has returned; it was invoked after the write-back of an earlier read
\* of the same key had completed, with no time elapsed and no other call on
\* the key made or in progress between that completion and this return
ReadFollowsRead(t) ==
  /\ task[t].op \in ReadOps /\ ~task[t].filtered
  /\ task[t].pc = "done"
  /\ obs[t].pre.on
  /\ obs[t].undisturbed

\* The read-through pattern, in a step of read t; Sound tells that the store
\* calls of the pattern did what they were called for.
\*   lookup: a live entry is returned and no request is issued, otherwise
\*           the request is issued;
\*   write-back: the fetched payload is under the key when the read returns it;
\*   next read: a read that follows at once is a hit on that payload.
ReadThrough(t, Sound(_)) ==
  /\ (LookupSettles(t) /\ Sound(t)) =>
       IF EntryState(store[task[t].key]) = "live"
       THEN /\ task'[t].pc = "done" /\ task'[t].outcome = "resolved"
            /\ task'[t].res = store[task[t].key].data
            /\ ~obs'[t].fetched
       ELSE task'[t].pc = "fetch" /\ obs'[t].fetched
  /\ (WriteBackReturns(t) /\ Sound(t)) =>
       /\ obs[t].netOk
       /\ task'[t].outcome = "resolved" /\ task'[t].res = task[t].resp.body
       /\ store'[task[t].key].present
       /\ store'[task[t].key].data = task[t].resp.body
  /\ (ReadFollowsRead(t)' /\ Sound(t)) =>
       /\ task'[t].outcome = "resolved" /\ task'[t].res = obs'[t].pre.data
       /\ ~obs'[t].fetched

Always(t) == TRUE

\* neither read t nor the write-back it follows met a storage failure, and the
\* entry written back was unexpired when its put completed
NoStorageFailure(t) ==
  /\ ~obs'[t].sfail
  /\ obs'[t].pre.on => (~obs'[t].pre.failed /\ obs'[t].pre.live)

IsListRead(t) == task[t].op = "listPictograms" \/ task'[t].op = "listPictograms"
IsEntityRead(t) == task[t].op = "getPictogram" \/ task'[t].op = "getPictogram"

C29_ExpiresAtIsTimestampPlusTtl ==
  [][(RequestApplied /\ Head(idbQueue).fn = "put") =>
       LET entry == store'[Head(idbQueue).key] IN
       entry.present /\ entry.expiresAt = entry.timestamp + Head(idbQueue).ttl]_vars


\* ---- C30
\* the installation of this instance is over and its bootstrap pre-cache had
\* failed: the static partition was opened and holds no bootstrap asset (no
\* message reaches an instance before it is activated)
PrecacheFailed ==
  /\ swLife.state = "installed"
  /\ swCache[CACHE_NAMES.static][Request("GET", PageUrl)] = NoResp

\* C30: installation tolerates bootstrap pre-cache failures: if fetching an
\* asset of the bootstrap list fails, the installing step still completes and
\* the instance proceeds through the lifecycle to active; the instance never
\* ends in a failed-install state.
C30_InstallToleratesPrecacheFailure ==
  /\ [](swLife.state \in {"new", "installing", "installed", "activating", "activated"})
  /\ (swLife.state = "installing" ~> swLife.state = "installed")
  /\ (PrecacheFailed ~> swLife.state = "activated")

\* the instance is active after an installation whose pre-cache failed
C30_Witness ==
  /\ swLife.state = "activated"
  /\ swSent = 0
  /\ CACHE_NAMES.static \in swExists
  /\ swCache[CACHE_NAMES.static][Request("GET", PageUrl)] = NoResp


\* ---- C35
\* no partition holds, and no cache.put in progress carries, a non-ok response
OnlyOkStored ==
  /\ \A n \in PartitionNames, q \in Requests :
       swCache[n][q] # NoResp => swCache[n][q].ok
  /\ \A p \in swPuts : p.resp.ok

\* fetch() gives invocation t a non-ok response in this step, which t returns
NonOkReturned(t) ==
  /\ swTask[t].pc \in {"cf_fetch", "nf_fetch", "swr_fetch"}
  /\ ~swObs[t].netResp /\ swObs'[t].netResp
  /\ ~swTask[t].answered
  /\ swTask'[t].res # NoResp
  /\ ~swTask'[t].res.ok

\* C35: in every reachable state no proxy partition contains a non-success
\* (non-ok) response: all three strategies store a network response only when
\* it is ok, and a non-ok response is passed to the caller without changing
\* any existing record.
C35_OnlyOkResponsesStored ==
  [][/\ OnlyOkStored'
     /\ \A t \in SwTasks :
          NonOkReturned(t)
            => /\ swTask'[t].pc = "done"
               /\ swTask'[t].outcome = "resolved"
               /\ swPuts' = swPuts
               /\ swCache' = swCache]_vars

\* a read of the API was answered non-ok and returned that answer, while the
\* API partition keeps the ok response stored by an earlier read
C35_Witness ==
  \E t \in SwTasks :
    /\ swTask[t].strategy = "networkFirst" /\ swTask[t].pc = "done"
    /\ swTask[t].req = Request("GET", ApiUrl)
    /\ swObs[t].netResp
    /\ swTask[t].res # NoResp /\ ~swTask[t].res.ok
    /\ swCache[CACHE_NAMES.api][swTask[t].req] # NoResp
    /\ swCache[CACHE_NAMES.api][swTask[t].req].ok
    /\ swPuts = {}


\* ---- C36
\* the request of a coordinator read ends in this step without a success
\* response: fetch() rejects, or a non-2xx response reaches the call
ReadEndsWithoutSuccess(t) ==
  /\ task[t].op \in ReadOps
  /\ task[t].pc \in {"fetch", "respond"}
  /\ task'[t] # task[t]
  /\ obs'[t].netErr \/ (task[t].pc = "respond" /\ ~task[t].resp.ok)

\* C36: a coordinator read (listPictograms or getPictogram) whose network
\* request fails or returns a non-2xx response rejects and writes nothing to
\* the structured store: it makes no store call then, and a read never makes a
\* put unless its request got a success response, so no entry is created or
\* refreshed by a failed read.
C36_FailedReadWritesNothing ==
  [][/\ \A t \in Tasks :
          ReadEndsWithoutSuccess(t)
            => /\ task'[t].pc = "done"
               /\ task'[t].outcome = "rejected"
               /\ store' = store
               /\ idbQueue' = idbQueue
     /\ \A i \in DOMAIN idbQueue' :
          LET c == idbQueue'[i] IN
          (c.task # Detached /\ task'[c.task].op \in ReadOps /\ c.fn # "get")
            => c.fn = "put" /\ obs'[c.task].netOk]_vars

\* getPictogram(p1) on an empty store was answered non-2xx: it has rejected
\* and the store is still empty
C36_Witness ==
  /\ started = 1
  /\ task[1].op = "getPictogram" /\ task[1].pc = "done"
  /\ obs[1].fetched /\ ~obs[1].netOk /\ ~obs[1].netErr /\ ~obs[1].sfail
  /\ task[1].outcome = "rejected"
  /\ store = EmptyStore
  /\ idbQueue = <<>>


\* ---- C37
\* a stale-while-revalidate invocation that found no cached record has answered
SwrMissAnswered(t) ==
  /\ swTask[t].strategy = "staleWhileRevalidate"
  /\ swTask[t].pc = "done"
  /\ swTask[t].cached = NoResp

\* C37: stale-while-revalidate with no cached record: the caller's result is
\* exactly the outcome of the network fetch, the network response when the
\* fetch succeeds and a propagated failure when it fails; the strategy never
\* resolves without a response.
C37_SwrMissFollowsNetwork ==
  \A t \in SwTasks :
    SwrMissAnswered(t)
      => IF swObs[t].netResp
         THEN /\ swTask[t].outcome = "resolved"
              /\ swTask[t].res = Response(swTask[t].res.ok, swTask[t].seq)
         ELSE swTask[t].outcome = "rejected"


\* ---- C38
\* the store request of a direct getFromCache is applied in this step, and
\* finds an entry
GetFindsEntry ==
  /\ RequestApplied
  /\ Head(idbQueue).fn = "get"
  /\ Head(idbQueue).task # Detached
  /\ task[Head(idbQueue).task].op = "getFromCache"
  /\ store[Head(idbQueue).key].present

\* C38: expiry boundary: get(k) returns the stored value exactly when
\* now <= expiresAt and treats the entry as expired (returns none and starts
\* its deletion) exactly when now > expiresAt; an entry read at the instant
\* now = expiresAt is still served and not deleted.
C38_ExpiryBoundary ==
  [][GetFindsEntry =>
       LET c == Head(idbQueue)
           entry == store[c.key]
       IN /\ task'[c.task].pc = "done" /\ task'[c.task].outcome = "resolved"
          /\ store' = store
          /\ IF now <= entry.expiresAt
             THEN /\ task'[c.task].res = entry.data
                  /\ idbQueue' = Tail(idbQueue)
             ELSE /\ task'[c.task].res = Null
                  /\ Len(idbQueue') = Len(idbQueue)
                  /\ SubSeq(idbQueue', 1, Len(idbQueue) - 1) = Tail(idbQueue)
                  /\ LET d == idbQueue'[Len(idbQueue')]
                     IN d.task = Detached /\ d.fn = "delete" /\ d.key = c.key]_vars

\* a get at the very instant now = expiresAt was served the entry, which is
\* still stored and whose deletion was not started
C38_Witness ==
  /\ ticks = 1 /\ faults = 0 /\ idbQueue = <<>>
  /\ \E t \in Tasks :
       /\ task[t].op = "getFromCache" /\ task[t].pc = "done"
       /\ store[task[t].key].present
       /\ now = store[task[t].key].expiresAt
       /\ task[t].res = store[task[t].key].data
       /\ task[t].res \in Values
       /\ obs[t].undisturbed


\* ---- C39
\* updatePictogram(id, updates) has returned the record it synthesized after a
\* non-success response
UpdateSynthesized(t) ==
  /\ task[t].op = "updatePictogram"
  /\ task[t].pc = "done"
  /\ task[t].outcome = "resolved"
  /\ obs[t].fetched /\ ~obs[t].netOk /\ ~obs[t].netErr

\* C39: the record synthesized on the update soft-failure path always carries
\* the id passed to updatePictogram, for every updates object including one
\* that itself contains an id field.
C39_SynthesizedRecordCarriesPassedId ==
  \A t \in Tasks : UpdateSynthesized(t) => task[t].res.id = task[t].key


\* ---- C31
IsUploadRequest(q) == q.url = UploadUrl

\* C31: responses of the upload-url issuance endpoint are never cached: after
\* any sequence of getUploadUrl calls, no proxy partition holds (and no
\* cache.put in progress carries) a record for an upload-url request, and the
\* calls leave the structured store and its pending calls untouched.
C31_UploadUrlNeverCached ==
  [][/\ \A n \in PartitionNames, q \in Requests :
          IsUploadRequest(q) => swCache'[n][q] = NoResp
     /\ \A p \in swPuts' : ~IsUploadRequest(p.req)
     /\ \A t \in SwTasks :
          (IsUploadRequest(swTask[t].req) \/ IsUploadRequest(swTask'[t].req))
            => store' = store /\ idbQueue' = idbQueue]_vars

\* two getUploadUrl calls have been answered with success responses fresh from
\* the network, and the API partition holds what a read stored but nothing
\* for the upload-url request
C31_Witness ==
  /\ \E t \in SwTasks :
       /\ swTask[t].req = Request("POST", UploadUrl)
       /\ swTask[t].strategy = "networkFirst" /\ swTask[t].pc = "done"
       /\ swTask[t].seq = 3
       /\ swObs[t].netResp /\ swTask[t].outcome = "resolved" /\ swTask[t].res.ok
  /\ \E t \in SwTasks :
       /\ swTask[t].req = Request("POST", UploadUrl)
       /\ swTask[t].pc = "done" /\ swTask[t].seq = 2
       /\ swObs[t].netResp /\ swTask[t].res.ok
  /\ swPuts = {}
  /\ swCache[CACHE_NAMES.api][Request("GET", ApiUrl)] # NoResp
  /\ swCache[CACHE_NAMES.api][Request("POST", UploadUrl)] = NoResp


\* ---- C32
\* the store request of a call nobody awaits (one started by a get that found
\* an expired entry) is applied in this step
LazyCallApplied ==
  /\ RequestApplied
  /\ Head(idbQueue).task = Detached

\* C32: the lazy-expiry delete started by a get(k) that found an expired entry
\* removes only that expired entry: it is a delete of the key k alone, and
\* when it is applied the entry under k, if any, is the expired entry the get
\* found or the entry of a put(k) that had already begun when the get
\* returned; it is never an entry written by a put(k) that began after that
\* get(k) returned (such as the put of the read-through refill following the
\* miss).
C32_LazyDeleteRemovesOnlyExpired ==
  [][LazyCallApplied =>
       LET c == Head(idbQueue) IN
       /\ c.fn = "delete" /\ c.key = c.data.key
       /\ store' = [store EXCEPT ![c.key] = NoEntry]
       /\ store[c.key].present =>
            \/ store[c.key] = c.data.found
            \/ store[c.key].data \in c.data.begun]_vars

\* a list read found the list entry expired, fetched and wrote the collection
\* back; the lazy delete it had started has been applied, and the entry
\* written back is stored
C32_Witness ==
  /\ started = 1 /\ faults = 0 /\ idbQueue = <<>>
  /\ task[1].op = "listPictograms" /\ task[1].pc = "done"
  /\ obs[1].expired /\ obs[1].netOk
  /\ task[1].outcome = "resolved"
  /\ store[LIST_CACHE_KEY].present
  /\ store[LIST_CACHE_KEY].data = task[1].res
  /\ store[LIST_CACHE_KEY].timestamp = now
  /\ now > PopulatedStore[LIST_CACHE_KEY].expiresAt


\* ---- C40
\* a payload is the collection, not one record
IsCollection(v) == v # Null /\ "list" \in DOMAIN v

\* C40: entity entries and the list projection never collide in the store:
\* for every id, getPictogram(id) never returns the entry stored under the
\* reserved list key as if it were an entity, and a read-through never
\* overwrites that entry with a record: whatever is stored under the list key
\* is the collection, and whatever getPictogram resolves with is not.
C40_EntityAndListNeverCollide ==
  /\ store[LIST_CACHE_KEY].present => IsCollection(store[LIST_CACHE_KEY].data)
  /\ \A t \in Tasks :
       (task[t].op = "getPictogram" /\ task[t].pc = "done"
          /\ task[t].outcome = "resolved")
         => ~IsCollection(task[t].res)


\* ---- C34
\* C34: after the proxy has processed INVALIDATE_CACHE for a partition, that
\* partition holds no record obtained by a fetch that was started before the
\* message was processed: an invocation whose fetch was in flight when the
\* deletion of its partition completed does not insert its response afterwards.
C34_NoRecordAcrossInvalidation ==
  \A t \in SwTasks :
    swObs[t].across =>
      LET r == swTask[t]
          rec == swCache[r.cacheName][r.req]
      IN rec = NoResp \/ rec.body # r.seq


\* ---- C33
\* the collection as the server had it before any create was applied
PreCreate(v) == IsCollection(v) /\ v.ver = 0

\* C33: after a successful create, an unfiltered list read that completes
\* while the network is failing never results in the pre-create collection
\* being returned as a success and written into the structured store with a
\* fresh expiry: the proxy's network-first fallback copy of the list request
\* does not repopulate the list key with data older than the mutation
\* (stated for the runs without storage failure).
C33_NoPreCreateListFromFallback ==
  \A t \in Tasks :
    (/\ ListReadAfterCreate(t) /\ obs[t].afterCreate.state = "clean"
     /\ ~online /\ faults = 0)
      => ~(/\ PreCreate(task[t].res)
           /\ store[LIST_CACHE_KEY].present
           /\ store[LIST_CACHE_KEY].data = task[t].res
           /\ store[LIST_CACHE_KEY].expiresAt = now + CACHE_TTL)

====
